---- MODULE Spec2Model ----
(***************************************************************************)
(* Whitelist policy engine (whitelist_validator.py) and interleaved stage  *)
(* scheduler (orchestrator_stub.py) of OpperationWarglass.                 *)
(*                                                                         *)
(* Python strings are sequences of one-character strings.  Python values   *)
(* are records [t, s, n, d]: t is the Python type, s the characters of a   *)
(* str, n the value of an int, d the items of a dict.                      *)
(***************************************************************************)
EXTENDS Integers, Sequences, FiniteSets, TLC

VARIABLES
    WL,                 \* whitelist_validator.WL, the loaded policy document
    action,             \* the dict handed to validate_and_build
    result,             \* outcome of the latest validate_and_build call
    first,              \* outcome of the first call on this action
    calls,              \* number of validate_and_build calls made on this action
    descriptors,        \* whether --attack, --purpose and --defense were all supplied
    stages,             \* orchestrator_stub.stages, the resolved stage list
    attack_stages,      \* the three categorised lists
    purpose_stages,
    defense_stages,
    attack_idx,         \* the three cursors
    purpose_idx,
    defense_idx,
    defense_started,    \* the monitor latch
    detection_triggered,\* _detection_triggered, shared with the listener thread
    detected,           \* the main loop's local `detected`
    pc,                 \* position of the main thread
    sent,               \* the run_ssh_command calls made so far
    events,             \* the outcome events the stage bodies emitted so far
    ssh_event,          \* the event run_ssh_command emitted in its latest call
    unseen,             \* history: an alert was recorded that no poll has read yet
    true_polls,         \* history: polls that returned true while defense stages remained
    asked,              \* history: number of get_action_from_llm calls made by the loop
    raw_stages,         \* prompts.yaml's stages, the stage catalog
    order_doc,          \* order.yaml as loaded, for the requested descriptors
    stdout,             \* ai_agent_codellama: the raw text the inference process printed
    parsed,             \* ai_agent_codellama: what get_action_from_llm made of it
    prompt,             \* a stage's stored prompt
    RUNTIME_TARGET_MAP, \* the runtime target map
    prompt_to_send,     \* what substitute_targets returned for the prompt
    runs,               \* app.runs, the registered runs
    procs,              \* the orchestrator processes app.py has spawned
    handlers,           \* position of each /simulate request handler
    emitted,            \* history: the lines the orchestrator process has printed
    pipe,               \* proc.stdout: the lines printed and not yet read
    run_queue,          \* q, the run's queue
    streamed,           \* the objects the /stream response has yielded
    reader,             \* position of the run's reader thread
    client              \* position of the /stream response generator

validatorVars == <<action, result, first, calls>>

schedulerVars ==
    <<descriptors, stages, attack_stages, purpose_stages, defense_stages, attack_idx,
      purpose_idx, defense_idx, defense_started, detection_triggered, detected, pc, sent,
      events, ssh_event, unseen, true_polls, asked>>

resolveVars == <<raw_stages, order_doc>>

agentVars == <<stdout, parsed>>

substituteVars == <<prompt, RUNTIME_TARGET_MAP, prompt_to_send>>

streamVars == <<emitted, pipe, run_queue, streamed, reader, client>>

appVars == <<runs, procs, handlers, streamVars>>

auxVars == <<resolveVars, agentVars, substituteVars, appVars>>

vars == <<WL, validatorVars, schedulerVars, auxVars>>

\* the orchestrator is not running
SchedulerIdle ==
    /\ descriptors = FALSE
    /\ stages = <<>>
    /\ attack_stages = <<>> /\ purpose_stages = <<>> /\ defense_stages = <<>>
    /\ attack_idx = 0 /\ purpose_idx = 0 /\ defense_idx = 0
    /\ defense_started = FALSE
    /\ detection_triggered = FALSE
    /\ detected = FALSE
    /\ pc = "idle"
    /\ sent = <<>>
    /\ events = <<>>
    /\ ssh_event = "none"
    /\ unseen = FALSE
    /\ true_polls = 0
    /\ asked = 0

\* no order.yaml next to the script (line 110)
NoOrderDoc == [exists |-> FALSE, order |-> <<>>, found |-> FALSE, steps |-> <<>>]

\* no stage list is being resolved
ResolveIdle == raw_stages = <<>> /\ order_doc = NoOrderDoc

\* the normalizer is not running
AgentIdle == stdout = <<>> /\ parsed = <<>>

\* no prompt is being substituted
SubstituteIdle == prompt = <<>> /\ RUNTIME_TARGET_MAP = <<>> /\ prompt_to_send = <<>>

\* the web front end is not running
StreamIdle ==
    /\ emitted = <<>> /\ pipe = <<>> /\ run_queue = <<>> /\ streamed = <<>>
    /\ reader = "idle" /\ client = "idle"

AppIdle == runs = {} /\ procs = <<>> /\ handlers = <<>> /\ StreamIdle

AuxIdle == ResolveIdle /\ AgentIdle /\ SubstituteIdle /\ AppIdle

(***************************************************************************)
(* Characters                                                              *)
(***************************************************************************)
Digits == <<"0", "1", "2", "3", "4", "5", "6", "7", "8", "9">>

LowerSeq == <<"a", "b", "c", "d", "e", "f", "g", "h", "i", "j", "k", "l", "m",
              "n", "o", "p", "q", "r", "s", "t", "u", "v", "w", "x", "y", "z">>

UpperSeq == <<"A", "B", "C", "D", "E", "F", "G", "H", "I", "J", "K", "L", "M",
              "N", "O", "P", "Q", "R", "S", "T", "U", "V", "W", "X", "Y", "Z">>

Range(f) == {f[i] : i \in DOMAIN f}

DigitChars == Range(Digits)

AlphaChars == Range(LowerSeq) \cup Range(UpperSeq)

\* regex \w on the ASCII characters of the model
WordChars == AlphaChars \cup DigitChars \cup {"_"}

\* regex \s, str.isspace
SpaceChars == {" ", "\t", "\n"}

\* str.lower on one character
LowerChar(c) ==
    IF c \in Range(UpperSeq)
    THEN LowerSeq[CHOOSE i \in DOMAIN UpperSeq : UpperSeq[i] = c]
    ELSE c

lower(s) == [i \in DOMAIN s |-> LowerChar(s[i])]

(***************************************************************************)
(* str and re operations used by the validator                             *)
(***************************************************************************)
Drop(s, n) == SubSeq(s, n + 1, Len(s))

StartsWith(s, p) == Len(p) <= Len(s) /\ SubSeq(s, 1, Len(p)) = p

\* `sub in s` for strings
Contains(s, sub) ==
    \E i \in 1..(Len(s) - Len(sub) + 1) : SubSeq(s, i, i + Len(sub) - 1) = sub

\* re.fullmatch(r"[class]+", s)
FullMatchPlus(s, class) == Len(s) >= 1 /\ \A i \in DOMAIN s : s[i] \in class

\* str.replace(old, new): leftmost, non-overlapping occurrences
RECURSIVE str_replace(_, _, _)
str_replace(s, old, new) ==
    IF old = <<>> \/ Len(s) < Len(old) THEN s
    ELSE IF StartsWith(s, old)
         THEN new \o str_replace(Drop(s, Len(old)), old, new)
         ELSE <<Head(s)>> \o str_replace(Tail(s), old, new)

\* length of the longest prefix of s made of characters of the class
RECURSIVE RunLen(_, _)
RunLen(s, class) ==
    IF s = <<>> \/ Head(s) \notin class THEN 0 ELSE 1 + RunLen(Tail(s), class)

\* number of characters of s before the first sep
RECURSIVE RunUntil(_, _)
RunUntil(s, sep) ==
    IF s = <<>> \/ Head(s) = sep THEN 0 ELSE 1 + RunUntil(Tail(s), sep)

\* length of the match of \{\w+\} at the start of s, 0 when there is none
PlaceholderAt(s) ==
    IF s = <<>> \/ Head(s) # "{" THEN 0
    ELSE LET w == RunLen(Tail(s), WordChars)
         IN  IF w >= 1 /\ Len(s) >= w + 2 /\ s[w + 2] = "}" THEN w + 2 ELSE 0

\* re.sub(r"\{\w+\}", "", s): one left-to-right pass
RECURSIVE sub_placeholders(_)
sub_placeholders(s) ==
    IF s = <<>> THEN <<>>
    ELSE LET n == PlaceholderAt(s)
         IN  IF n > 0 THEN sub_placeholders(Drop(s, n))
             ELSE <<Head(s)>> \o sub_placeholders(Tail(s))

\* re.sub(r"\s+", " ", s)
RECURSIVE sub_whitespace(_)
sub_whitespace(s) ==
    IF s = <<>> THEN <<>>
    ELSE IF Head(s) \in SpaceChars
         THEN <<" ">> \o sub_whitespace(Drop(s, RunLen(s, SpaceChars)))
         ELSE <<Head(s)>> \o sub_whitespace(Tail(s))

RECURSIVE Reverse(_)
Reverse(s) == IF s = <<>> THEN <<>> ELSE Reverse(Tail(s)) \o <<Head(s)>>

lstrip(s) == Drop(s, RunLen(s, SpaceChars))

\* str.strip()
strip(s) == Reverse(lstrip(Reverse(lstrip(s))))

\* str.split(sep) for a one-character separator
RECURSIVE split(_, _)
split(s, sep) ==
    LET n == RunUntil(s, sep)
    IN  IF n = Len(s) THEN <<s>>
        ELSE <<SubSeq(s, 1, n)>> \o split(Drop(s, n + 1), sep)

DigitVal(c) == (CHOOSE i \in DOMAIN Digits : Digits[i] = c) - 1

\* int(s, 10) of a non-empty string of digits
RECURSIVE DecValue(_)
DecValue(s) ==
    IF s = <<>> THEN 0
    ELSE 10 * DecValue(SubSeq(s, 1, Len(s) - 1)) + DigitVal(s[Len(s)])

\* str(n) of a natural number
RECURSIVE NatStr(_)
NatStr(n) == IF n < 10 THEN <<Digits[n + 1]>> ELSE NatStr(n \div 10) \o <<Digits[(n % 10) + 1]>>

\* str(n) of an int
IntStr(n) == IF n < 0 THEN <<"-">> \o NatStr(0 - n) ELSE NatStr(n)

(***************************************************************************)
(* Python values and dicts.  A dict is the sequence of its items [k, v] in *)
(* insertion order, with distinct keys.                                    *)
(***************************************************************************)
StrV(s) == [t |-> "str", s |-> s, n |-> 0, d |-> <<>>]

IntV(n) == [t |-> "int", s |-> <<>>, n |-> n, d |-> <<>>]

DictV(items) == [t |-> "dict", s |-> <<>>, n |-> 0, d |-> items]

NoneV == [t |-> "none", s |-> <<>>, n |-> 0, d |-> <<>>]

\* a non-empty list (unhashable); its elements play no part
ListV == [t |-> "list", s |-> <<>>, n |-> 0, d |-> <<>>]

Item(k, v) == [k |-> k, v |-> v]

\* `k in d`
Has(d, k) == \E i \in DOMAIN d : d[i].k = k

\* d.get(k, default)
Get(d, k, default) ==
    IF Has(d, k) THEN d[CHOOSE i \in DOMAIN d : d[i].k = k].v ELSE default

\* d[k] = v: a new key goes last, an existing key keeps its position
Set(d, k, v) ==
    IF Has(d, k)
    THEN [i \in DOMAIN d |-> IF d[i].k = k THEN Item(k, v) ELSE d[i]]
    ELSE Append(d, Item(k, v))

\* bool(v)
Truthy(v) ==
    CASE v.t = "str" -> v.s # <<>>
      [] v.t = "int" -> v.n # 0
      [] v.t = "dict" -> v.d # <<>>
      [] v.t = "list" -> TRUE
      [] OTHER -> FALSE

\* str(v) of a validated value
PyStr(v) ==
    CASE v.t = "str" -> v.s
      [] v.t = "int" -> IntStr(v.n)
      [] v.t = "none" -> <<"N", "o", "n", "e">>
      [] OTHER -> <<"[", "]">>

\* `val in allowed` for a list
InList(val, allowed) == \E i \in DOMAIN allowed : allowed[i] = val

(***************************************************************************)
(* Basic validators (whitelist_validator.py:41-100).  A sanitizer returns  *)
(* [ok, v, err, arg]: the validated value, or the ValueError it raises.    *)
(***************************************************************************)
Accept(v) == [ok |-> TRUE, v |-> v, err |-> "", arg |-> <<>>]

Raise(msg, arg) == [ok |-> FALSE, v |-> NoneV, err |-> msg, arg |-> arg]

\* parse_octet without the range check
parse_octet_no_range(octet_str) ==
    /\ octet_str # <<>>
    /\ \A i \in DOMAIN octet_str : octet_str[i] \in DigitChars
    /\ Len(octet_str) <= 3
    /\ ~(octet_str # <<"0">> /\ Head(octet_str) = "0")

\* ipaddress.IPv4Address._parse_octet
parse_octet_ok(octet_str) ==
    /\ octet_str # <<>>
    /\ \A i \in DOMAIN octet_str : octet_str[i] \in DigitChars
    /\ Len(octet_str) <= 3
    /\ ~(octet_str # <<"0">> /\ Head(octet_str) = "0")
    /\ DecValue(octet_str) <= 255

is_valid_ip(val) ==
    /\ ~Contains(val, <<"/">>)
    /\ val # <<>>
    /\ LET octets == split(val, ".")
       IN  Len(octets) = 4 /\ \A i \in DOMAIN octets : parse_octet_ok(octets[i])

AlnumChars == AlphaChars \cup DigitChars \cup {"_", "-"}

PortChars == DigitChars \cup {",", "-"}

SafeChars == AlphaChars \cup DigitChars \cup {"_", "-", ".", "/"}

\* default max_len of sanitize_alnum
MaxAlnumLen == 128

sanitize_alnum(val) ==
    IF val.t # "str" THEN Raise("value must be a string", <<>>)
    ELSE IF ~(FullMatchPlus(val.s, AlnumChars) /\ Len(val.s) <= MaxAlnumLen)
         THEN Raise("invalid alnum value", <<>>)
         ELSE Accept(val)

\* sanitize_ports without the format check
sanitize_ports_unchecked(val) ==
    IF val.t # "str" THEN Raise("ports must be a string", <<>>)
    ELSE Accept(StrV(<<"-", "p", " ">> \o val.s))

sanitize_ports(val) ==
    IF val.t # "str" THEN Raise("ports must be a string", <<>>)
    ELSE IF ~FullMatchPlus(val.s, PortChars)
         THEN Raise("invalid ports format", <<>>)
         ELSE Accept(StrV(<<"-", "p", " ">> \o val.s))

\* int(s) of a str: surrounding whitespace, a sign, digit groups joined by single "_"
IntLiteral(s) ==
    LET body == strip(s)
        signed == body # <<>> /\ Head(body) \in {"+", "-"}
        mag == IF signed THEN Tail(body) ELSE body
        groups == split(mag, "_")
        ok == \A i \in DOMAIN groups : FullMatchPlus(groups[i], DigitChars)
        abs == DecValue(str_replace(mag, <<"_">>, <<>>))
    IN  [ok |-> ok,
         n |-> IF ~ok THEN 0 ELSE IF signed /\ Head(body) = "-" THEN 0 - abs ELSE abs]

\* int(val)
to_int(val) ==
    CASE val.t = "int" -> [ok |-> TRUE, n |-> val.n]
      [] val.t = "str" -> IntLiteral(val.s)
      [] OTHER -> [ok |-> FALSE, n |-> 0]

sanitize_int(val, min_v, max_v) ==
    LET v == to_int(val)
    IN  IF ~v.ok THEN Raise("value is not an integer", <<>>)
        ELSE IF min_v # NoneV /\ v.n < min_v.n
             THEN Raise("integer value below minimum", <<>>)
        ELSE IF max_v # NoneV /\ v.n > max_v.n
             THEN Raise("integer value above maximum", <<>>)
        ELSE Accept(StrV(IntStr(v.n)))

check_allowed_path(path, allowed_paths) ==
    IF InList(path, allowed_paths) THEN Accept(path)
    ELSE Raise("path not in allowed paths", <<>>)

check_enum(val, allowed) ==
    IF InList(val, allowed) THEN Accept(val)
    ELSE Raise("enum value not allowed", <<>>)

check_iface(val, allowed) ==
    IF InList(val, allowed) THEN Accept(val)
    ELSE Raise("interface not allowed", <<>>)

(***************************************************************************)
(* Blacklist scan (whitelist_validator.py:103-131)                         *)
(***************************************************************************)
BLACKLIST_TOKENS ==
    << <<";">>, <<"&", "&">>, <<"|">>, <<">">>, <<"<">>, <<"$", "(">>, <<"$">>,
       <<"r", "m">>, <<"s", "h", "u", "t", "d", "o", "w", "n">>,
       <<"r", "e", "b", "o", "o", "t">> >>

\* re.search(r"\b" + tok + r"\b", s) for a token of word characters
WordSearch(s, tok) ==
    \E i \in 1..(Len(s) - Len(tok) + 1) :
        /\ SubSeq(s, i, i + Len(tok) - 1) = tok
        /\ (i = 1 \/ s[i - 1] \notin WordChars)
        /\ (i + Len(tok) > Len(s) \/ s[i + Len(tok)] \notin WordChars)

\* the scan with every token matched as a plain substring
TokenHit_substring(low, tok) == tok # <<>> /\ Contains(low, tok)

\* whether the scan raises on this token
TokenHit(low, tok) ==
    IF tok = <<>> THEN FALSE
    ELSE IF FullMatchPlus(tok, AlphaChars) THEN WordSearch(low, tok)
    ELSE Contains(low, tok)

\* index of the token assert_no_blacklist raises on, 0 when it returns
assert_no_blacklist(cmd) ==
    LET low == lower(cmd)
        hits == {i \in DOMAIN BLACKLIST_TOKENS : TokenHit(low, BLACKLIST_TOKENS[i])}
    IN  IF hits = {} THEN 0 ELSE CHOOSE i \in hits : \A j \in hits : i <= j

(***************************************************************************)
(* validate_and_build (whitelist_validator.py:137-239)                     *)
(*                                                                         *)
(* The policy document is [tools |-> dict]; a tool's entry is              *)
(* [template, requires_approval, params, empty], empty marking an entry    *)
(* with no keys; a ParamSpec is [name, required, type, min, max, allowed,  *)
(* allowed_paths].  The outcome is [ok, cmd, meta] or the error raised.    *)
(***************************************************************************)
K_tool == <<"t", "o", "o", "l">>

K_params == <<"p", "a", "r", "a", "m", "s">>

NoMeta == [tool |-> NoneV, requires_approval |-> FALSE, template |-> <<>>,
           validated_params |-> <<>>]

Returned(cmd, meta) == [ok |-> TRUE, cmd |-> cmd, err |-> "", arg |-> <<>>, meta |-> meta]

Raised(msg, arg) == [ok |-> FALSE, cmd |-> <<>>, err |-> msg, arg |-> arg, meta |-> NoMeta]

\* lines 165-169: the parameter source
resolve_params(act) ==
    LET params == Get(act, K_params, DictV(<<>>))
    IN  IF params.t = "dict" THEN params.d
        ELSE SelectSeq(act, LAMBDA it : it.k # K_tool)

\* lines 185-213: the check of one present parameter by declared type
check_param(pmeta, raw_val) ==
    CASE pmeta.type = "ip" ->
            IF raw_val.t # "str" \/ ~is_valid_ip(raw_val.s)
            THEN Raise("Invalid IP for parameter", pmeta.name)
            ELSE Accept(raw_val)
      [] pmeta.type = "alnum" -> sanitize_alnum(raw_val)
      [] pmeta.type = "ports" -> sanitize_ports(raw_val)
      [] pmeta.type = "int" -> sanitize_int(raw_val, pmeta.min, pmeta.max)
      [] pmeta.type = "existing_path" -> check_allowed_path(raw_val, pmeta.allowed_paths)
      [] pmeta.type = "enum" -> check_enum(raw_val, pmeta.allowed)
      [] pmeta.type = "iface" -> check_iface(raw_val, pmeta.allowed)
      [] OTHER ->
            IF raw_val.t # "str" THEN Raise("Parameter must be a string", pmeta.name)
            ELSE IF ~FullMatchPlus(raw_val.s, SafeChars)
                 THEN Raise("Parameter contains invalid characters", pmeta.name)
                 ELSE Accept(raw_val)

\* the loop step with an absent parameter skipped whether required or not
param_step_optional(pmeta, params) ==
    IF ~Has(params, pmeta.name) THEN [skip |-> TRUE, r |-> Accept(NoneV)]
    ELSE [skip |-> FALSE, r |-> check_param(pmeta, Get(params, pmeta.name, NoneV))]

\* lines 179-183: what the loop does with one ParamSpec
param_step(pmeta, params) ==
    IF ~Has(params, pmeta.name)
    THEN IF pmeta.required
         THEN [skip |-> FALSE, r |-> Raise("Missing required parameter", pmeta.name)]
         ELSE [skip |-> TRUE, r |-> Accept(NoneV)]
    ELSE [skip |-> FALSE, r |-> check_param(pmeta, Get(params, pmeta.name, NoneV))]

\* lines 171-213: the loop over the declared ParamSpecs, in order
RECURSIVE validate_params(_, _, _)
validate_params(params_meta, params, validated) ==
    IF params_meta = <<>> THEN [ok |-> TRUE, err |-> "", arg |-> <<>>, validated |-> validated]
    ELSE LET pmeta == Head(params_meta)
             st == param_step(pmeta, params)
         IN  IF st.skip THEN validate_params(Tail(params_meta), params, validated)
             ELSE IF ~st.r.ok
                  THEN [ok |-> FALSE, err |-> st.r.err, arg |-> st.r.arg, validated |-> <<>>]
                  ELSE validate_params(Tail(params_meta), params,
                                       Set(validated, pmeta.name, st.r.v))

\* lines 220-222: one str.replace per validated item, in dict order
RECURSIVE substitute(_, _)
substitute(cmd, validated) ==
    IF validated = <<>> THEN cmd
    ELSE substitute(str_replace(cmd, <<"{">> \o Head(validated).k \o <<"}">>,
                                PyStr(Head(validated).v)),
                    Tail(validated))

\* lines 224-227: strip leftover placeholders, normalise whitespace
tidy(cmd) == strip(sub_whitespace(sub_placeholders(cmd)))

\* lines 215-239: template, rendering, blacklist scan, metadata
build(tool_name, tool_meta, validated) ==
    IF tool_meta.template = <<>> THEN Raised("No template defined for tool", tool_name.s)
    ELSE LET cmd == tidy(substitute(tool_meta.template, validated))
             hit == assert_no_blacklist(cmd)
         IN  IF hit # 0
             THEN Raised("final command contains disallowed token", BLACKLIST_TOKENS[hit])
             ELSE Returned(cmd, [tool |-> tool_name,
                                 requires_approval |-> tool_meta.requires_approval,
                                 template |-> tool_meta.template,
                                 validated_params |-> validated])

\* lines 159-163: tools.get(tool_name); NoTool stands for None
NoTool == [template |-> <<>>, requires_approval |-> FALSE, params |-> <<>>, empty |-> TRUE]

\* a lookup that falls back to the first tool of the policy document
lookup_tool_or_first(wl, tool_name) ==
    IF tool_name.t = "str" /\ Has(wl.tools, tool_name.s)
    THEN Get(wl.tools, tool_name.s, NoTool)
    ELSE wl.tools[1].v

lookup_tool(wl, tool_name) ==
    IF tool_name.t = "str" THEN Get(wl.tools, tool_name.s, NoTool) ELSE NoTool

validate_and_build(wl, act) ==
    IF act.t # "dict" THEN Raised("action must be a dict", <<>>)
    ELSE LET tool_name == Get(act.d, K_tool, NoneV)
         IN  IF ~Truthy(tool_name) THEN Raised("action missing required 'tool' field", <<>>)
             ELSE IF tool_name.t \in {"list", "dict"} THEN Raised("unhashable type", <<>>)
             ELSE LET tool_meta == lookup_tool(wl, tool_name)
                  IN  IF tool_meta.empty THEN Raised("Tool not allowed", PyStr(tool_name))
                      ELSE LET vp == validate_params(tool_meta.params,
                                                     resolve_params(act.d), <<>>)
                           IN  IF ~vp.ok THEN Raised(vp.err, vp.arg)
                               ELSE build(tool_name, tool_meta, vp.validated)

(***************************************************************************)
(* Strings of the policy document and of the proposed actions              *)
(***************************************************************************)
W_ping == <<"p", "i", "n", "g">>   \* "ping"
W_nmap == <<"n", "m", "a", "p">>   \* "nmap"
W_tcpdump == <<"t", "c", "p", "d", "u", "m", "p">>   \* "tcpdump"
W_tail == <<"t", "a", "i", "l">>   \* "tail"
W_id == <<"i", "d">>   \* "id"
W_ls == <<"l", "s">>   \* "ls"
W_echo == <<"e", "c", "h", "o">>   \* "echo"
W_noop == <<"n", "o", "o", "p">>   \* "noop"
W_void == <<"v", "o", "i", "d">>   \* "void"
W_wget == <<"w", "g", "e", "t">>   \* "wget"
K_target == <<"t", "a", "r", "g", "e", "t">>   \* "target"
K_flags == <<"f", "l", "a", "g", "s">>   \* "flags"
K_ports == <<"p", "o", "r", "t", "s">>   \* "ports"
K_interface == <<"i", "n", "t", "e", "r", "f", "a", "c", "e">>   \* "interface"
K_duration == <<"d", "u", "r", "a", "t", "i", "o", "n">>   \* "duration"
K_path == <<"p", "a", "t", "h">>   \* "path"
K_lines == <<"l", "i", "n", "e", "s">>   \* "lines"
K_user == <<"u", "s", "e", "r">>   \* "user"
K_dir == <<"d", "i", "r">>   \* "dir"
K_a == <<"a">>   \* "a"
K_extra == <<"e", "x", "t", "r", "a">>   \* "extra"
T_ping == <<"p", "i", "n", "g", " ", "-", "c", " ", "3", " ", "{", "t", "a", "r", "g", "e", "t", "}">>   \* "ping -c 3 {target}"
T_nmap == <<"n", "m", "a", "p", " ", "{", "f", "l", "a", "g", "s", "}", " ", "{", "p", "o", "r", "t", "s", "}", " ", "{", "t", "a", "r", "g", "e", "t", "}">>   \* "nmap {flags} {ports} {target}"
T_tcpdump == <<"t", "c", "p", "d", "u", "m", "p", " ", "-", "i", " ", "{", "i", "n", "t", "e", "r", "f", "a", "c", "e", "}", " ", "-", "c", " ", "{", "d", "u", "r", "a", "t", "i", "o", "n", "}">>   \* "tcpdump -i {interface} -c {duration}"
T_tail == <<"t", "a", "i", "l", " ", "-", "n", " ", "{", "l", "i", "n", "e", "s", "}", " ", "{", "p", "a", "t", "h", "}">>   \* "tail -n {lines} {path}"
T_id == <<"i", "d", " ", "{", "u", "s", "e", "r", "}">>   \* "id {user}"
T_ls == <<"l", "s", " ", "{", "d", "i", "r", "}">>   \* "ls {dir}"
S_ip == <<"1", "0", ".", "0", ".", "0", ".", "5">>   \* "10.0.0.5"
S_commas == <<"1", "0", ",", "0", ",", "0", ",", "5">>   \* "10,0,0,5"
S_portlist == <<"2", "2", ",", "8", "0">>   \* "22,80"
S_eth0 == <<"e", "t", "h", "0">>   \* "eth0"
S_eth1 == <<"e", "t", "h", "1">>   \* "eth1"
S_sV == <<"-", "s", "V">>   \* "-sV"
S_sS == <<"-", "s", "S">>   \* "-sS"
S_semi == <<"a", ";", "b">>   \* "a;b"
S_rm == <<"r", "m">>   \* "rm"
S_RM == <<"R", "M">>   \* "RM"
S_firmware == <<"f", "i", "r", "m", "w", "a", "r", "e">>   \* "firmware"
S_rm_rf == <<"r", "m", "-", "r", "f">>   \* "rm-rf"
S_rm_x == <<"r", "m", "_", "x">>   \* "rm_x"
S_pad7 == <<" ", "7", " ">>   \* " 7 "
S_61 == <<"6", "1">>   \* "61"
S_neg == <<"-", "1", "_", "0">>   \* "-1_0"
S_red == <<"r", "e", "d">>   \* "red"
S_authlog == <<"/", "v", "a", "r", "/", "l", "o", "g", "/", "a", "u", "t", "h", ".", "l", "o", "g">>   \* "/var/log/auth.log"
S_shadow == <<"/", "e", "t", "c", "/", "s", "h", "a", "d", "o", "w">>   \* "/etc/shadow"
S_brace == <<"{", "t", "a", "r", "g", "e", "t", "}">>   \* "{target}"
S_slash == <<"1", "0", ".", "0", ".", "0", ".", "5", "/", "8">>   \* "10.0.0.5/8"
S_lead == <<" ", "1", "0", ".", "0", ".", "0", ".", "5">>   \* " 10.0.0.5"
S_empty == <<>>   \* the empty string

(***************************************************************************)
(* The policy document.  whitelist.yaml is configuration: Whitelist holds  *)
(* the tools the module's usage notes and quick test name (ping, nmap,     *)
(* tcpdump), one tool per remaining ParamSpec type, and entries with the   *)
(* mistakes the blacklist scan is a backstop for.                          *)
(***************************************************************************)
ParamSpec(name, required, type) ==
    [name |-> name, required |-> required, type |-> type, min |-> NoneV, max |-> NoneV,
     allowed |-> <<>>, allowed_paths |-> <<>>]

Tool(template, params) ==
    [template |-> template, requires_approval |-> FALSE, params |-> params, empty |-> FALSE]

Whitelist ==
    [tools |-> <<
        Item(W_ping, Tool(T_ping, <<ParamSpec(K_target, TRUE, "ip")>>)),
        Item(W_nmap, [Tool(T_nmap, <<
            ParamSpec(K_target, TRUE, "ip"),
            [ParamSpec(K_flags, FALSE, "enum") EXCEPT
                !.allowed = <<StrV(S_sV), StrV(S_sS), StrV(S_semi)>>],
            ParamSpec(K_ports, FALSE, "ports")>>) EXCEPT !.requires_approval = TRUE]),
        Item(W_tcpdump, Tool(T_tcpdump, <<
            [ParamSpec(K_interface, TRUE, "iface") EXCEPT
                !.allowed = <<StrV(S_eth0), StrV(S_eth1)>>],
            [ParamSpec(K_duration, TRUE, "int") EXCEPT
                !.min = IntV(1), !.max = IntV(60)]>>)),
        Item(W_tail, Tool(T_tail, <<
            [ParamSpec(K_path, TRUE, "existing_path") EXCEPT
                !.allowed_paths = <<StrV(S_authlog)>>],
            ParamSpec(K_lines, FALSE, "int")>>)),
        Item(W_id, [Tool(T_id, <<ParamSpec(K_user, TRUE, "alnum")>>)
                       EXCEPT !.requires_approval = TRUE]),
        Item(W_ls, Tool(T_ls, <<ParamSpec(K_dir, FALSE, "string")>>)),
        Item(W_noop, Tool(<<>>, <<ParamSpec(K_a, FALSE, "alnum")>>)),
        Item(W_void, NoTool) >>]

\* a policy document with the one tool echo, of the given template
TemplatePolicy(template) ==
    [tools |-> <<Item(W_echo, Tool(template, <<ParamSpec(K_a, FALSE, "alnum")>>))>>]

(***************************************************************************)
(* Bounded inputs                                                          *)
(***************************************************************************)
\* longest generated template
MaxTemplateLen == 6

\* most dot-separated parts of a generated address
MaxOctets == 5

\* most undeclared parameters added to an action
MaxExtra == 1

\* validate_and_build calls made on one action
MaxCalls == 2

TemplateChars == {"{", "}", "a"}

RECURSIVE StringsUpTo(_, _)
StringsUpTo(chars, n) ==
    IF n = 0 THEN {<<>>}
    ELSE LET shorter == StringsUpTo(chars, n - 1)
         IN  shorter \cup {<<c>> \o s : c \in chars, s \in {x \in shorter : Len(x) = n - 1}}

\* templates with a policy mistake in them
SloppyTemplates ==
    { <<"c", "a", "t", " ", "x", " ", "|", " ", "w", "c">>,
      <<"a", " ", "&", "&", " ", "b">>,
      <<"e", "c", "h", "o", " ", ">", " ", "x">>,
      <<"w", "c", " ", "<", " ", "x">>,
      <<"e", "c", "h", "o", " ", "$", "(", "i", "d", ")">>,
      <<"e", "c", "h", "o", " ", "$", "H", "O", "M", "E">>,
      <<"x", ";", " ", "{", "a", "}">>,
      <<"/", "b", "i", "n", "/", "r", "m", " ", "{", "a", "}">>,
      <<"R", "e", "b", "o", "o", "t", " ", "n", "o", "w">>,
      <<"s", "h", "u", "t", "d", "o", "w", "n", " ", "-", "h">>,
      <<"p", "r", "m", " ", "f", "i", "r", "m", "w", "a", "r", "e", " ", "{", "a", "}">>,
      <<"r", "m", "_", "{", "a", "}">>,
      <<"x", "{", "a", "}">>,
      <<"{", "a", "}", "r", "m">>,
      <<"a", " ", "&", " ", "b">>,
      <<"{", "{", "a", "}", "}">>,
      <<"{", "a", "}", " ", "x", " ", "{", "a", "}">>,
      <<"e", "c", "h", "o", "\t", " ", "{", "a", "}", " ", " ", "b", " ">> }

Templates == StringsUpTo(TemplateChars, MaxTemplateLen) \cup SloppyTemplates

OctetStrings == { <<"0">>, <<"0", "7">>, <<"2", "5", "5">>, <<"2", "5", "6">>, <<>> }

RECURSIVE Dotted(_)
Dotted(n) ==
    IF n = 1 THEN OctetStrings
    ELSE {a \o <<".">> \o o : a \in Dotted(n - 1), o \in OctetStrings}

AddressStrings == UNION {Dotted(n) : n \in 3..MaxOctets}

\* values tried for every declared parameter
CommonValues ==
    { StrV(S_ip), StrV(S_commas), StrV(S_eth1), StrV(S_sV), StrV(S_semi), StrV(S_pad7),
      StrV(S_61), StrV(S_neg), StrV(S_red), StrV(S_authlog), StrV(S_brace), StrV(S_empty),
      IntV(10), NoneV, ListV }

\* further values tried on the tools of one parameter
WordValues ==
    { StrV(S_rm), StrV(S_RM), StrV(S_firmware), StrV(S_rm_rf), StrV(S_rm_x),
      StrV(S_slash), StrV(S_lead), StrV(S_shadow), StrV(S_portlist) }

ValuesFor(params_meta) ==
    IF Len(params_meta) = 1 THEN CommonValues \cup WordValues ELSE CommonValues

\* every way to leave out or supply each named parameter
RECURSIVE Assignments(_, _)
Assignments(names, values) ==
    IF names = <<>> THEN {<<>>}
    ELSE {h \o t : h \in {<<>>} \cup {<<Item(Head(names), v)>> : v \in values},
                   t \in Assignments(Tail(names), values)}

Names(params_meta) == [i \in DOMAIN params_meta |-> params_meta[i].name]

\* n undeclared parameters
ExtraItems(n) == [i \in 1..n |-> Item(K_extra \o NatStr(i), StrV(S_semi))]

\* the calling conventions: nested params (with undeclared extras), parameters at top
\* level, and a params entry that is no dict
Conventions ==
    {[conv |-> "nested", extra |-> n] : n \in 0..MaxExtra}
        \cup {[conv |-> "top", extra |-> 0], [conv |-> "nondict", extra |-> 0]}

Shape(c, tool, items) ==
    CASE c.conv = "nested" -> DictV(tool \o <<Item(K_params, DictV(items \o ExtraItems(c.extra)))>>)
      [] c.conv = "top" -> DictV(tool \o items)
      [] OTHER -> DictV(tool \o <<Item(K_params, NoneV)>> \o items)

\* tool entries of an action whose tool is absent, empty, no string, or unknown
NoToolEntries ==
    {<<>>} \cup {<<Item(K_tool, v)>> :
                    v \in {StrV(S_empty), StrV(W_wget), NoneV, IntV(0), IntV(10), ListV}}

EchoValues == {StrV(K_a), StrV(S_rm), StrV(S_semi)}

(***************************************************************************)
(* The validator called on one action, up to MaxCalls times                *)
(***************************************************************************)
NoResult == Raised("", <<>>)

\* the dict after a call that took the parameters with action.pop("params")
action_after_pop(act) ==
    IF act.t = "dict" THEN DictV(SelectSeq(act.d, LAMBDA it : it.k # K_params)) ELSE act

\* the dict `action` after a call: validate_and_build only reads it (action.get,
\* action.items) and builds new dicts for params and validated
action_after_call(act) == act

\* an action naming a tool of the policy document
InitToolAction ==
    \E i \in DOMAIN Whitelist.tools :
        \E items \in Assignments(Names(Whitelist.tools[i].v.params),
                                  ValuesFor(Whitelist.tools[i].v.params)) :
            \E c \in Conventions :
                /\ WL = Whitelist
                /\ action = Shape(c, <<Item(K_tool, StrV(Whitelist.tools[i].k))>>, items)

\* an action with no usable tool, or that is no dict
InitNoToolAction ==
    /\ WL = Whitelist
    /\ \/ \E tool \in NoToolEntries :
            \E items \in Assignments(<<K_target>>, {StrV(S_ip), StrV(S_commas)}) :
                \E c \in Conventions : action = Shape(c, tool, items)
       \/ action \in {NoneV, StrV(W_ping)}

\* a ping of a generated address
InitAddressAction ==
    \E s \in AddressStrings :
        /\ WL = Whitelist
        /\ action = Shape([conv |-> "nested", extra |-> 0], <<Item(K_tool, StrV(W_ping))>>,
                          <<Item(K_target, StrV(s))>>)

\* an echo under a generated template
InitEchoAction ==
    \E template \in Templates :
        \E items \in Assignments(<<K_a>>, EchoValues) :
            /\ WL = TemplatePolicy(template)
            /\ action = Shape([conv |-> "nested", extra |-> 0],
                              <<Item(K_tool, StrV(W_echo))>>, items)

ValidatorInit ==
    /\ InitToolAction \/ InitNoToolAction \/ InitAddressAction \/ InitEchoAction
    /\ result = NoResult
    /\ first = NoResult
    /\ calls = 0
    /\ SchedulerIdle
    /\ AuxIdle

Call ==
    /\ calls < MaxCalls
    /\ result' = validate_and_build(WL, action)
    /\ first' = IF calls = 0 THEN result' ELSE first
    /\ calls' = calls + 1
    /\ action' = action_after_call(action)
    /\ WL' = WL
    /\ UNCHANGED <<schedulerVars, auxVars>>

ValidatorNext == Call

ValidatorSpec == ValidatorInit /\ [][ValidatorNext]_vars

(***************************************************************************)
(* The interleaved stage loop (orchestrator_stub.py:292-411) and the       *)
(* detection listener thread (orchestrator_stub.py:26-41).                 *)
(*                                                                         *)
(* A stage is [name, category]; the inference call is an opaque            *)
(* collaborator that raises or returns any of ProposedActions.             *)
(***************************************************************************)
\* most stages in the resolved stage list
MaxStages == 3

\* the categories the loop knows (lines 295-297)
Categories == {"attack", "purpose", "defense"}

\* the stage lists of n stages: every stage has a category, or none has
StageLists(n) ==
    { [i \in 1..n |-> [name |-> i, category |-> cats[i]]] : cats \in [1..n -> Categories] }
    \cup { [i \in 1..n |-> [name |-> i, category |-> "none"]] }

S_blue == <<"b", "l", "u", "e">>   \* "blue"

\* what get_action_from_llm may return for a stage
ProposedActions ==
    { DictV(<<Item(K_tool, StrV(W_id)), Item(K_params, DictV(<<Item(K_user, StrV(S_red))>>))>>),
      DictV(<<Item(K_tool, StrV(W_ping)),
              Item(K_params, DictV(<<Item(K_target, StrV(S_commas))>>))>>) }

\* the stage synthesised from the three descriptors (lines 264-278)
Custom_Run == [name |-> 0, category |-> "none"]

Min(a, b) == IF a < b THEN a ELSE b

Max(a, b) == IF a > b THEN a ELSE b

\* stages[lo:hi], a Python slice with 0 <= lo
Slice(s, lo, hi) == SubSeq(s, lo + 1, Min(hi, Len(s)))

OfCategory(s, c) == SelectSeq(s, LAMBDA st : st.category = c)

\* a split into three plain thirds
Categorised_plain_thirds(s) ==
    LET a == OfCategory(s, "attack")
        p == OfCategory(s, "purpose")
        d == OfCategory(s, "defense")
        total == Len(s)
    IN  IF a # <<>> \/ p # <<>> \/ d # <<>>
        THEN [attack |-> a, purpose |-> p, defense |-> d]
        ELSE [attack |-> Slice(s, 0, total \div 3),
              purpose |-> Slice(s, total \div 3, (2 * total) \div 3),
              defense |-> Slice(s, (2 * total) \div 3, total)]

\* lines 294-311: the three lists; by category, or by thirds when no stage has one
Categorised(s) ==
    LET a == OfCategory(s, "attack")
        p == OfCategory(s, "purpose")
        d == OfCategory(s, "defense")
        total == Len(s)
        t1 == Max(1, total \div 3)
        t2 == Max(1, (2 * total) \div 3)
    IN  IF a # <<>> \/ p # <<>> \/ d # <<>>
        THEN [attack |-> a, purpose |-> p, defense |-> d]
        ELSE [attack |-> Slice(s, 0, t1), purpose |-> Slice(s, t1, t2),
              defense |-> Slice(s, t2, total)]

SchedulerInit ==
    /\ WL = Whitelist
    /\ action = NoneV /\ result = NoResult /\ first = NoResult /\ calls = 0
    /\ descriptors \in BOOLEAN
    /\ \E n \in 0..MaxStages : \E list \in StageLists(n) :
          stages = IF n = 0 /\ descriptors THEN <<Custom_Run>> ELSE list
    /\ attack_stages = <<>> /\ purpose_stages = <<>> /\ defense_stages = <<>>
    /\ attack_idx = 0 /\ purpose_idx = 0 /\ defense_idx = 0
    /\ defense_started = FALSE
    /\ detection_triggered = FALSE
    /\ detected = FALSE
    /\ pc = "start"
    /\ sent = <<>>
    /\ events = <<>>
    /\ ssh_event = "none"
    /\ unseen = FALSE
    /\ true_polls = 0
    /\ asked = 0
    /\ AuxIdle

\* a start that enters the loop even with no stage
start_loop(total) == "loop"

\* lines 303-306: with no stage at all the run ends in sys.exit(0), otherwise the loop starts
start_position(total) == IF total = 0 THEN "exited" ELSE "loop"

\* line 305: emit("warn", message="No stages defined; nothing to run")
start_events(total) ==
    IF total = 0
    THEN <<[type |-> "warn", block |-> "start", phase |-> "none", stage |-> 0]>>
    ELSE <<>>

\* lines 294-333: derive the lists, reset the cursors; an empty stage list ends the run
Start ==
    /\ pc = "start"
    /\ LET lists == Categorised(stages)
       IN  /\ attack_stages' = lists.attack
           /\ purpose_stages' = lists.purpose
           /\ defense_stages' = lists.defense
    /\ attack_idx' = 0 /\ purpose_idx' = 0 /\ defense_idx' = 0
    /\ defense_started' = FALSE
    /\ events' = events \o start_events(Len(stages))
    /\ pc' = start_position(Len(stages))
    /\ UNCHANGED <<WL, validatorVars, auxVars, descriptors, stages, detection_triggered, detected, sent,
                   ssh_event, unseen, true_polls,
                   asked>>

\* the command run_ssh_command is given for a stage run in the given mode
dispatched(mode, cmd) == IF mode = "monitor" THEN str_replace(cmd, S_red, S_blue) ELSE cmd

\* run_ssh_command (lines 145-160): always connects to SSH_HOST, the red machine.
\* metadata is what validate_and_build returned next to the command; the loop binds it
\* (lines 348, 366, 400) and never reads it.  History: requires_approval is logged
\* with the call.
run_ssh_command(mode, stage, built, metadata) ==
    [phase |-> mode, stage |-> stage.name, built |-> built, cmd |-> dispatched(mode, built),
     host |-> "red", requires_approval |-> metadata.requires_approval]

\* lines 184 and 198: substitute_targets is defined inside the branch taken when all
\* three descriptors were supplied; elsewhere the name is unbound
substitute_targets_defined == descriptors

\* the body of a stage's try block (lines 344-352, 362-372, 396-404), given what
\* validate_and_build did with the proposed action: the run_ssh_command calls made.
\* substitute_targets exists only when the descriptors were supplied (lines 184-209),
\* and the inference call may raise; either way the except branch is taken.
TryStage(mode, stage, raised, r) ==
    IF ~descriptors \/ raised \/ ~r.ok THEN <<>> ELSE <<run_ssh_command(mode, stage, r.cmd, r.meta)>>

\* how the SSH session of run_ssh_command may end: output only, output on stderr,
\* or an exception (connection refused, timeout), which run_ssh_command catches itself
ExecutorOutcomes == {"ok", "stderr", "raise"}

\* lines 155-160: the event run_ssh_command emits; it names neither phase nor stage
executor_event(outcome) ==
    CASE outcome = "ok" -> "ssh_output"
      [] outcome = "stderr" -> "ssh_error"
      [] outcome = "raise" -> "error"

\* lines 350/352, 369/372, 402/404: the event a stage body emits when its try block
\* ran to the end (ran) or was left by an exception
outcome_event(mode, stage, ran) ==
    [type |-> IF ~ran THEN "error" ELSE IF mode = "monitor" THEN "info" ELSE "complete",
     block |-> mode,
     phase |-> IF mode = "attack" THEN "attack" ELSE "defense",
     stage |-> stage.name]

\* a cursor that stays on a stage whose body failed
advance_on_success(idx, ran) == IF ran THEN idx + 1 ELSE idx

\* a cursor that skips a stage
advance_by_two(idx, ran) == idx + 2

\* lines 354 and 405: the cursor after a stage body, whether or not the body ran to the end
advance(idx, ran) == idx + 1

\* an exit check that looks at the attack cursor only
ExitCheck_attack_only(didx) == IF attack_idx >= Len(attack_stages) THEN "finished" ELSE "loop"

\* the exit check of lines 408-409
ExitCheck(didx) ==
    IF attack_idx >= Len(attack_stages) /\ didx >= Len(defense_stages) THEN "finished" ELSE "loop"

\* lines 338 and 374-381: an attack stage is due, or the loop's first exit check
LoopTop ==
    /\ pc = "loop"
    /\ pc' = IF attack_idx < Len(attack_stages) THEN "attack"
             ELSE IF defense_idx >= Len(defense_stages) THEN "finished" ELSE "sleep"
    /\ UNCHANGED <<WL, validatorVars, auxVars, descriptors, stages, attack_stages, purpose_stages,
                   defense_stages, attack_idx, purpose_idx, defense_idx, defense_started,
                   detection_triggered, detected, sent, events, ssh_event, unseen, true_polls,
                   asked>>

\* lines 357-358: the monitor start is due while the latch is unset;
\* defense_stages[defense_idx] is read outside the try block, so a cursor past the
\* end ends the run with IndexError
MonitorDue ==
    /\ pc = "monitor_due"
    /\ pc' = IF defense_stages # <<>> /\ ~defense_started
             THEN IF defense_idx >= Len(defense_stages) THEN "crashed" ELSE "monitor"
             ELSE "sleep"
    /\ UNCHANGED <<WL, validatorVars, auxVars, descriptors, stages, attack_stages, purpose_stages,
                   defense_stages, attack_idx, purpose_idx, defense_idx, defense_started,
                   detection_triggered, detected, sent, events, ssh_event, unseen, true_polls,
                   asked>>

\* the stage a stage body works on
CurrentStage ==
    IF pc = "attack" THEN attack_stages[attack_idx + 1] ELSE defense_stages[defense_idx + 1]

\* the three stage bodies: the attack stage at its cursor (lines 339-354), the monitor
\* start (lines 359-372) and the escalated defense stage (lines 392-405)
RunStage ==
    /\ pc \in {"attack", "monitor", "defense"}
    /\ \E proposal \in ProposedActions, raised \in BOOLEAN :
          sent' = sent \o TryStage(pc, CurrentStage, raised, validate_and_build(WL, proposal))
    /\ events' = Append(events, outcome_event(pc, CurrentStage, sent' # sent))
    /\ IF sent' # sent
       THEN \E outcome \in ExecutorOutcomes : ssh_event' = executor_event(outcome)
       ELSE ssh_event' = ssh_event
    /\ attack_idx' = IF pc = "attack" THEN advance(attack_idx, sent' # sent) ELSE attack_idx
    /\ defense_started' = (defense_started \/ (pc = "monitor" /\ sent' # sent))
    /\ defense_idx' = IF pc = "defense" THEN advance(defense_idx, sent' # sent) ELSE defense_idx
    /\ asked' = IF substitute_targets_defined THEN asked + 1 ELSE asked
    /\ pc' = CASE pc = "attack" -> "monitor_due"
               [] pc = "monitor" -> "sleep"
               [] pc = "defense" -> ExitCheck(defense_idx')
    /\ UNCHANGED <<WL, validatorVars, auxVars, descriptors, stages, attack_stages, purpose_stages,
                   defense_stages, purpose_idx, detection_triggered, detected, unseen,
                   true_polls>>

\* line 384: time.sleep(1)
Sleep ==
    /\ pc = "sleep"
    /\ pc' = "poll"
    /\ UNCHANGED <<WL, validatorVars, auxVars, descriptors, stages, attack_stages, purpose_stages,
                   defense_stages, attack_idx, purpose_idx, defense_idx, defense_started,
                   detection_triggered, detected, sent, events, ssh_event, unseen, true_polls,
                   asked>>

\* line 325: check_detection_on_blue reads the flag
PollRead ==
    /\ pc = "poll"
    /\ detected' = detection_triggered
    /\ pc' = IF detection_triggered THEN "clear" ELSE "escalate"
    /\ unseen' = (unseen /\ ~detection_triggered)
    /\ true_polls' = IF detection_triggered /\ defense_idx < Len(defense_stages)
                     THEN true_polls + 1 ELSE true_polls
    /\ UNCHANGED <<WL, validatorVars, auxVars, descriptors, stages, attack_stages, purpose_stages,
                   defense_stages, attack_idx, purpose_idx, defense_idx, defense_started,
                   detection_triggered, sent, events, ssh_event,
                   asked>>

\* line 326: and resets it
PollClear ==
    /\ pc = "clear"
    /\ detection_triggered' = FALSE
    /\ pc' = "escalate"
    /\ UNCHANGED <<WL, validatorVars, auxVars, descriptors, stages, attack_stages, purpose_stages,
                   defense_stages, attack_idx, purpose_idx, defense_idx, defense_started,
                   detected, sent, events, ssh_event, unseen, true_polls,
                   asked>>

\* an escalation that does not wait for a detection
escalation_pending(det, didx) == didx < Len(defense_stages)

\* lines 389-391: a defense stage is due when the poll returned true and one remains
escalation_due(det, didx) == det /\ didx < Len(defense_stages)

\* lines 389-391 and 408-409: on detection the defense stage at the cursor is due;
\* otherwise straight to the exit check
Escalate ==
    /\ pc = "escalate"
    /\ pc' = IF escalation_due(detected, defense_idx) THEN "defense"
             ELSE ExitCheck(defense_idx)
    /\ UNCHANGED <<WL, validatorVars, auxVars, descriptors, stages, attack_stages, purpose_stages,
                   defense_stages, attack_idx, purpose_idx, defense_idx, defense_started,
                   detection_triggered, detected, sent, events, ssh_event, unseen, true_polls,
                   asked>>

Running == {"loop", "attack", "monitor_due", "monitor", "sleep", "poll", "clear", "escalate",
            "defense"}

\* bytes.upper on one byte
UpperChar(c) ==
    IF c \in Range(LowerSeq)
    THEN UpperSeq[CHOOSE i \in DOMAIN LowerSeq : LowerSeq[i] = c]
    ELSE c

upper(s) == [i \in DOMAIN s |-> UpperChar(s[i])]

S_ALERT == <<"A", "L", "E", "R", "T">>   \* b"ALERT"

\* datagrams that may arrive on the detection port: the blue agent's, a lower-case one
\* with a line end, and an unrelated one
Datagrams == {S_ALERT, <<"a", "l", "e", "r", "t", "\n">>, <<"P", "I", "N", "G">>}

\* a listener that takes any non-empty datagram for an alert
is_alert_any(d) == d # <<>>

\* line 36: data.strip().upper() == b"ALERT"
is_alert(d) == upper(strip(d)) = S_ALERT

\* lines 35-38: the listener has received datagram d, whose sender it only prints;
\* an alert payload sets the flag
ListenTo(d) ==
    /\ pc \in Running
    /\ detection_triggered' = IF is_alert(d) THEN TRUE ELSE detection_triggered
    /\ unseen' = IF is_alert(d) THEN TRUE ELSE unseen
    /\ UNCHANGED <<WL, validatorVars, auxVars, descriptors, stages, attack_stages, purpose_stages,
                   defense_stages, attack_idx, purpose_idx, defense_idx, defense_started,
                   detected, pc, sent, events, ssh_event, true_polls, asked>>

\* lines 34-38: the listener thread's loop
Listen == \E d \in Datagrams : ListenTo(d)

Next ==
    \/ Start
    \/ LoopTop
    \/ MonitorDue
    \/ RunStage
    \/ Sleep
    \/ PollRead
    \/ PollClear
    \/ Escalate
    \/ Listen

Spec == SchedulerInit /\ [][Next]_vars

(***************************************************************************)
(* Properties of the stage loop                                            *)
(***************************************************************************)
\* C1: every command string handed to run_ssh_command, in an attack stage, in the
\* monitor-mode defense start or in a detection-triggered defense stage, is the very
\* string validate_and_build returned for that stage's action.
C1_DispatchedAsValidated == \A i \in DOMAIN sent : sent[i].cmd = sent[i].built

\* C11: the poll is an atomic test-and-clear with respect to the listener: an alert the
\* listener has recorded stays in the flag until a poll reads it; no clear erases an
\* alert that arrived after the read of the poll the clear belongs to.
C11_NoAlertErased == unseen => detection_triggered

\* C12: alerts received since the previous poll, however many, make the next poll
\* return true exactly once: the poll that follows them returns true and leaves the
\* flag false, so the poll after it returns false unless another alert came in between.
C12_AlertsCollapse ==
    [][/\ (pc = "poll" /\ pc' # "poll" /\ unseen) => detected'
       /\ (pc = "clear" /\ pc' # "clear") => ~detection_triggered']_vars

\* the event the latest stage body emitted
LastEvent == events'[Len(events')]

\* C13: when the attack cursor has stages left, the stage at the cursor is attempted
\* and the cursor then moves on by one, whatever the outcome of the attempt, and the
\* loop goes on; likewise the defense cursor on a detection-triggered defense stage.
C13_CursorAdvances ==
    [][/\ (pc = "loop" /\ pc' # "loop" /\ attack_idx < Len(attack_stages)) => pc' = "attack"
       /\ (pc = "attack" /\ pc' # "attack") =>
             /\ attack_idx' = attack_idx + 1
             /\ Len(events') = Len(events) + 1
             /\ LastEvent.block = "attack"
             /\ LastEvent.stage = attack_stages[attack_idx + 1].name
             /\ pc' = "monitor_due"
       /\ (pc = "defense" /\ pc' # "defense") =>
             /\ defense_idx' = defense_idx + 1
             /\ Len(events') = Len(events) + 1
             /\ LastEvent.block = "defense"
             /\ LastEvent.stage = defense_stages[defense_idx + 1].name
             /\ pc' \in {"loop", "finished"}
             /\ pc' = "finished" => /\ attack_idx' = Len(attack_stages)
                                    /\ defense_idx' = Len(defense_stages)]_vars

\* a failed attack stage was followed by the next attack stage, and a failed
\* detection-triggered defense stage moved the defense cursor
C13_Witness ==
    /\ \E i, j \in DOMAIN events :
          /\ i < j
          /\ events[i].block = "attack" /\ events[i].type = "error"
          /\ events[j].block = "attack"
    /\ \E i \in DOMAIN events : events[i].block = "defense" /\ events[i].type = "error"
    /\ defense_idx >= 1

\* main-thread positions between a poll's read and the defense stage it triggers
Escalating == {"clear", "escalate", "defense"}

\* C14: the defense cursor moves only after a poll that returned true while defense
\* stages remained, and by one: defense_idx is the number of such polls (less the one
\* whose stage is about to run), and the run finishes only after len(defense_stages)
\* of them.
C14_DefenseCursor ==
    /\ pc \notin Escalating => defense_idx = true_polls
    /\ pc \in Escalating => defense_idx \in {true_polls - 1, true_polls}
    /\ pc = "defense" => defense_idx = true_polls - 1
    /\ pc = "finished" => true_polls >= Len(defense_stages)

\* the defense cursor moved while attack stages remained, and the run has finished
C14_Witness ==
    /\ pc = "finished"
    /\ true_polls >= 1
    /\ defense_idx = true_polls
    /\ \E i, j \in DOMAIN events :
          /\ i < j
          /\ events[i].block = "defense"
          /\ events[j].block = "attack"

(***************************************************************************)
(* Properties of validate_and_build                                        *)
(***************************************************************************)
\* action.get("tool")
ToolOf(act) == Get(act.d, K_tool, NoneV)

\* the tool names an entry of the policy document
ToolFound == action.t = "dict" /\ ToolOf(action).t = "str" /\ ~lookup_tool(WL, ToolOf(action)).empty

\* the action with its non-tool top-level keys moved under a nested params mapping
NestedForm(act) ==
    DictV(SelectSeq(act.d, LAMBDA it : it.k = K_tool)
              \o <<Item(K_params, DictV(SelectSeq(act.d, LAMBDA it : it.k # K_tool)))>>)

\* C2: an action without a 'params' key is validated and rendered exactly like the
\* same action with its non-tool top-level keys nested under 'params'.
C2_TopLevelParams ==
    (calls >= 1 /\ action.t = "dict" /\ ~Has(action.d, K_params))
        => result = validate_and_build(WL, NestedForm(action))

ToolErrors == {"action missing required 'tool' field", "Tool not allowed", "unhashable type"}

\* the tool is absent, empty, or not a key of the policy document's tools
NoUsableTool(wl, act) ==
    \/ ~Has(act.d, K_tool)
    \/ ToolOf(act) = StrV(<<>>)
    \/ ~(ToolOf(act).t = "str" /\ Has(wl.tools, ToolOf(act).s))

\* C3: an action whose tool is absent, empty or not a key of the policy document is
\* rejected with a tool error and no command, whatever parameters it carries.
C3_UnknownToolRejected ==
    (calls >= 1 /\ action.t = "dict" /\ NoUsableTool(WL, action))
        => (~result.ok /\ result.cmd = <<>> /\ result.err \in ToolErrors)

\* an unknown tool with an invalid target: the tool error is the one reported
C3_Witness ==
    /\ calls >= 1 /\ action.t = "dict"
    /\ ToolOf(action) = StrV(W_wget)
    /\ Get(resolve_params(action.d), K_target, NoneV) = StrV(S_commas)
    /\ result.err = "Tool not allowed"

\* the failure of one ParamSpec taken alone: [fails, err, arg]
SpecFailure(pmeta, params) ==
    IF ~Has(params, pmeta.name)
    THEN [fails |-> pmeta.required, err |-> "Missing required parameter", arg |-> pmeta.name]
    ELSE LET r == check_param(pmeta, Get(params, pmeta.name, NoneV))
         IN  [fails |-> ~r.ok, err |-> r.err, arg |-> r.arg]

\* C4: the ParamSpecs are checked in declared order; the rejection reported is that of
\* the first one that fails, a missing required parameter being reported as missing,
\* and no command is returned.
C4_FirstFailureReported ==
    (calls >= 1 /\ ToolFound) =>
        LET ps == lookup_tool(WL, ToolOf(action)).params
            params == resolve_params(action.d)
            failing == {i \in DOMAIN ps : SpecFailure(ps[i], params).fails}
        IN  failing # {} =>
                LET f == CHOOSE i \in failing : \A j \in failing : i <= j
                IN  /\ ~result.ok /\ result.cmd = <<>>
                    /\ result.err = SpecFailure(ps[f], params).err
                    /\ result.arg = SpecFailure(ps[f], params).arg

\* a required parameter is missing and a later parameter is invalid
C4_Witness ==
    /\ calls >= 1 /\ ToolFound
    /\ result.err = "Missing required parameter"
    /\ LET ps == lookup_tool(WL, ToolOf(action)).params
           params == resolve_params(action.d)
       IN  Cardinality({i \in DOMAIN ps : SpecFailure(ps[i], params).fails}) >= 2

\* some {word} occurs in s
HasPlaceholder(s) ==
    \E i \in DOMAIN s : \E j \in DOMAIN s :
        /\ j > i + 1 /\ s[i] = "{" /\ s[j] = "}"
        /\ \A k \in (i + 1)..(j - 1) : s[k] \in WordChars

\* s holds x as a whole word, whatever the case of its letters
WholeWord(s, x) ==
    \E i \in DOMAIN s : \E j \in DOMAIN s :
        /\ j - i + 1 = Len(x)
        /\ \A k \in DOMAIN x : LowerChar(s[i + k - 1]) = x[k]
        /\ (i = 1 \/ s[i - 1] \notin WordChars)
        /\ (j = Len(s) \/ s[j + 1] \notin WordChars)

\* s holds a blacklisted token: ; && | > < $( $ anywhere, rm shutdown reboot as words
Dangerous(s) ==
    \/ \E i \in DOMAIN s : s[i] \in {";", "|", ">", "<", "$"}
    \/ \E i \in DOMAIN s : i < Len(s) /\ s[i] = "&" /\ s[i + 1] = "&"
    \/ \E x \in {S_rm, <<"s", "h", "u", "t", "d", "o", "w", "n">>,
                 <<"r", "e", "b", "o", "o", "t">>} : WholeWord(s, x)

\* C5: a returned command holds no remaining {word} placeholder and no blacklisted token.
C5_NoPlaceholderLeft ==
    (calls >= 1 /\ result.ok) => (~HasPlaceholder(result.cmd) /\ ~Dangerous(result.cmd))

\* the command as rendered from the template, before the blacklist scan
Rendered ==
    LET tool_meta == lookup_tool(WL, ToolOf(action))
        vp == validate_params(tool_meta.params, resolve_params(action.d), <<>>)
    IN  tidy(substitute(tool_meta.template, vp.validated))

\* validation got as far as the blacklist scan
Scanned ==
    /\ ToolFound
    /\ LET tool_meta == lookup_tool(WL, ToolOf(action))
       IN  /\ tool_meta.template # <<>>
           /\ validate_params(tool_meta.params, resolve_params(action.d), <<>>).ok

\* C6: the rendered command is rejected by the blacklist scan exactly when it holds one
\* of ; && | > < $( $ as a substring or rm, shutdown, reboot (in any case) as a whole
\* word; a destructive name inside a longer word does not cause rejection.
C6_BlacklistScan ==
    (calls >= 1 /\ Scanned) =>
        /\ result.ok = ~Dangerous(Rendered)
        /\ ~result.ok => result.err = "final command contains disallowed token"

\* a command that holds "rm" only inside a longer word is returned
C6_Witness == calls >= 1 /\ result.ok /\ Contains(lower(result.cmd), S_rm)

\* the template with each {name} of a validated parameter replaced by its value and
\* every other {word} removed, in one pass over the template
RECURSIVE Fill(_, _)
Fill(template, validated) ==
    IF template = <<>> THEN <<>>
    ELSE LET n == PlaceholderAt(template)
             name == SubSeq(template, 2, n - 1)
         IN  IF n = 0 THEN <<Head(template)>> \o Fill(Tail(template), validated)
             ELSE (IF Has(validated, name) THEN PyStr(Get(validated, name, NoneV)) ELSE <<>>)
                      \o Fill(Drop(template, n), validated)

\* C7: the returned command is the template with the placeholder of each supplied
\* declared parameter replaced by its validated value and the other placeholders
\* removed, whitespace runs collapsed and both ends trimmed.
C7_Rendering ==
    (calls >= 1 /\ result.ok) =>
        result.cmd = strip(sub_whitespace(Fill(result.meta.template,
                                               result.meta.validated_params)))

AllowListTypes == {"existing_path", "enum", "iface"}

ValueChars == AlphaChars \cup DigitChars \cup {"_", ".", ",", "/", "-"}

\* the ParamSpec of the tool of this action with the given name
SpecNamed(name) ==
    LET ps == lookup_tool(WL, ToolOf(action)).params
    IN  ps[CHOOSE i \in DOMAIN ps : ps[i].name = name]

\* C8: every value substituted into a template is an entry of the parameter's declared
\* allow-list (enumerated-path, enumerated-value, interface-name) or a string of
\* characters of [A-Za-z0-9_.,/-], after the fixed "-p " prefix for a port-list.
C8_SafeValues ==
    (calls >= 1 /\ result.ok) =>
        \A i \in DOMAIN result.meta.validated_params :
            LET it == result.meta.validated_params[i]
                pmeta == SpecNamed(it.k)
                body == IF pmeta.type = "ports" THEN Drop(it.v.s, 3) ELSE it.v.s
            IN  IF pmeta.type \in AllowListTypes
                THEN InList(it.v, IF pmeta.type = "existing_path"
                                  THEN pmeta.allowed_paths ELSE pmeta.allowed)
                ELSE /\ it.v.t = "str"
                     /\ pmeta.type = "ports" => SubSeq(it.v.s, 1, 3) = <<"-", "p", " ">>
                     /\ \A k \in DOMAIN body : body[k] \in ValueChars

\* an accepted nmap action with an address, an enumerated flag and a port list
C8_Witness ==
    /\ calls >= 1 /\ result.ok
    /\ Len(result.meta.validated_params) = 3
    /\ Get(result.meta.validated_params, K_ports, NoneV) = StrV(<<"-", "p", " ">> \o S_commas)

CanonicalOctets == {IntStr(n) : n \in 0..255}

\* numerals of 0..255 with any number of leading zeros
PaddedOctet(o) == FullMatchPlus(o, DigitChars) /\ DecValue(o) <= 255

\* s is four dot-separated parts, each satisfying Part
FourParts(s, Part(_)) ==
    \E i \in DOMAIN s :
        /\ s[i] = "." /\ Part(SubSeq(s, 1, i - 1))
        /\ \E j \in (i + 1)..Len(s) :
            /\ s[j] = "." /\ Part(SubSeq(s, i + 1, j - 1))
            /\ \E k \in (j + 1)..Len(s) :
                /\ s[k] = "." /\ Part(SubSeq(s, j + 1, k - 1))
                /\ Part(SubSeq(s, k + 1, Len(s)))

\* the action names ping and supplies its ip-address parameter
PingWithTarget ==
    /\ action.t = "dict" /\ ToolOf(action) = StrV(W_ping)
    /\ Has(resolve_params(action.d), K_target)

TargetGiven == Get(resolve_params(action.d), K_target, NoneV)

IpOutcome(Part(_)) ==
    IF TargetGiven.t = "str" /\ FourParts(TargetGiven.s, Part)
    THEN result.ok /\ Get(result.meta.validated_params, K_target, NoneV) = TargetGiven
    ELSE ~result.ok /\ result.err = "Invalid IP for parameter" /\ result.arg = K_target

\* C10 as stated: the value is accepted exactly when it is a string of four
\* dot-separated decimal octets each in 0..255.
C10_AnyDecimalOctets ==
    (calls >= 1 /\ PingWithTarget) => IpOutcome(PaddedOctet)

\* C10: the value is accepted, unrepaired, exactly when it is a string of four
\* dot-separated decimal octets each in 0..255 written without leading zeros; any
\* other value is rejected with the invalid-IP reason.
C10_DottedQuad ==
    (calls >= 1 /\ PingWithTarget) => IpOutcome(LAMBDA o : o \in CanonicalOctets)

\* the comma-written address fed straight to the validator is rejected as an invalid IP
C10_Witness ==
    /\ calls >= 1 /\ PingWithTarget
    /\ TargetGiven = StrV(S_commas)
    /\ result.err = "Invalid IP for parameter"

\* the monitor-mode starts attempted so far
MonitorAttempts == {i \in DOMAIN events : events[i].block = "monitor"}

\* C15: with defense stages present the monitor-mode start is attempted once per run,
\* right after the first attack stage and before the first poll, and that attempt sets
\* defense_started, which is never reset; no later attack stage is followed by another
\* monitor-mode start.
C15_MonitorStartOnce ==
    /\ Cardinality(MonitorAttempts) <= 1
    /\ \A i \in MonitorAttempts : i = 2 /\ events[1].block = "attack"
    /\ (MonitorAttempts # {} /\ pc # "monitor") => defense_started
    /\ (defense_stages # <<>> /\ attack_idx >= 1 /\ pc \notin {"monitor_due", "monitor"})
          => MonitorAttempts # {}

\* C16: the command of the monitor-mode defense stage goes to the defender (blue)
\* target, not to the attacker (red) target.
C16_MonitorOnBlue == \A i \in DOMAIN sent : sent[i].phase = "monitor" => sent[i].host = "blue"

\* C17: the loop is left, and "finished" emitted, only with both cursors at the end of
\* their lists.
C17_ExitOnlyWhenExhausted ==
    pc = "finished" => /\ attack_idx = Len(attack_stages)
                       /\ defense_idx = Len(defense_stages)

\* a run with attack and defense stages has finished
C17_Witness ==
    /\ pc = "finished"
    /\ Len(attack_stages) >= 2
    /\ Len(defense_stages) >= 1

\* C18: an attack stage attempt records exactly one outcome before the cursor moves:
\* "complete" exactly when normalization, validation and execution all succeeded,
\* otherwise "error" with the phase and the stage name, also when the executor failed.
C18_OneOutcomePerAttempt ==
    [][(pc = "attack" /\ pc' # "attack") =>
          /\ Len(events') = Len(events) + 1
          /\ LastEvent.type \in {"complete", "error"}
          /\ LastEvent.type = "complete" <=> (sent' # sent /\ ssh_event' = "ssh_output")
          /\ LastEvent.phase = "attack"
          /\ LastEvent.stage = attack_stages[attack_idx + 1].name]_vars

\* the letters of the alert payload, in either case
AlertLetters == <<{"A", "a"}, {"L", "l"}, {"E", "e"}, {"R", "r"}, {"T", "t"}>>

\* d is the word ALERT in any mix of cases, with only whitespace around it
AlertLike(d) ==
    \E k \in 0..Len(d) :
        /\ k + 5 <= Len(d)
        /\ \A i \in 1..5 : d[k + i] \in AlertLetters[i]
        /\ \A i \in DOMAIN d : (i <= k \/ i > k + 5) => d[i] \in SpaceChars

\* C19 as stated: the listener sets the flag only for a datagram that is exactly the
\* ALERT payload.
C19_OnlyExactAlert ==
    [][\A d \in Datagrams :
          (ListenTo(d) /\ detection_triggered' # detection_triggered) => d = S_ALERT]_vars

\* C19: the listener changes only the flag, only to true, and only for a datagram that
\* reads ALERT once surrounding whitespace is dropped and case is ignored; any other
\* datagram leaves the flag as it is; the listener touches neither the cursors nor
\* defense_started; only the scheduler's poll clears the flag.
C19_ListenerFrame ==
    [][detection_triggered' # detection_triggered =>
          IF detection_triggered'
          THEN /\ \E d \in Datagrams : ListenTo(d)
               /\ \A d \in Datagrams : ListenTo(d) => AlertLike(d)
               /\ UNCHANGED <<attack_idx, purpose_idx, defense_idx, defense_started, pc>>
          ELSE pc = "clear" /\ pc' = "escalate"]_vars

\* the listener has set the flag while the scheduler was between two attack stages
C19_Witness ==
    /\ detection_triggered /\ unseen
    /\ pc = "sleep"
    /\ attack_idx >= 1

\* C20: with an empty stage list and no stage synthesised from the descriptors the run
\* ends at once: a warning is reported, no stage body runs, nothing is dispatched, and
\* the process exits with status 0.
C20_EmptyRunEnds ==
    (stages = <<>> /\ pc # "start") =>
        /\ pc = "exited"
        /\ events = <<[type |-> "warn", block |-> "start", phase |-> "none", stage |-> 0]>>
        /\ sent = <<>>
        /\ ssh_event = "none"
        /\ attack_idx = 0 /\ defense_idx = 0

\* a run without stages and without the three descriptors has ended
C20_Witness == stages = <<>> /\ ~descriptors /\ pc = "exited"

\* the positions inside a stage body
StageBodies == {"attack", "monitor", "defense"}

\* the steps of the main thread outside the stage bodies
MainThread == Start \/ LoopTop \/ MonitorDue \/ Sleep \/ PollRead \/ PollClear \/ Escalate

\* the blue agent's datagram is received: the listener step for b"ALERT"
AlertArrives ==
    /\ pc \in Running
    /\ detection_triggered' = TRUE
    /\ unseen' = TRUE
    /\ UNCHANGED <<WL, validatorVars, auxVars, descriptors, stages, attack_stages, purpose_stages,
                   defense_stages, attack_idx, purpose_idx, defense_idx, defense_started,
                   detected, pc, sent, events, ssh_event, true_polls, asked>>

\* the loop when the main thread keeps running, every stage body ends (each inference
\* and executor call returns or raises), and the blue agent sends ALERT again whenever
\* no unread alert is recorded
LiveSpec ==
    Spec /\ WF_vars(MainThread) /\ []<>(pc \notin StageBodies) /\ WF_vars(AlertArrives)

\* C23: a finished run has run every stage of the purpose list and has moved
\* purpose_idx past it.
C23_PurposeStagesRun ==
    pc = "finished" =>
        /\ purpose_idx = Len(purpose_stages)
        /\ \A i \in DOMAIN purpose_stages :
              \E j \in DOMAIN events : events[j].stage = purpose_stages[i].name

\* C28: with alerts arriving for as long as the flag is unset and every call
\* returning, the run eventually reports finished (or ends at once on an empty stage list).
C28_EventuallyFinished == <>(pc \in {"finished", "exited"})

\* C29: in a run started without the three descriptors, the prompt of every attack
\* stage reaches the inference call.
C29_CatalogPromptsAsked ==
    [][(~descriptors /\ pc = "attack" /\ pc' # "attack") => asked' = asked + 1]_vars

\* C30: whenever defense_stages[defense_idx] is read (monitor-mode start, escalation)
\* the cursor is inside the list.
C30_DefenseIndexInRange ==
    /\ pc # "crashed"
    /\ pc \in {"monitor", "defense"} => defense_idx < Len(defense_stages)
    /\ (pc = "monitor_due" /\ defense_stages # <<>> /\ ~defense_started)
          => defense_idx < Len(defense_stages)

(***************************************************************************)
(* Stage list resolution (orchestrator_stub.py:92-139 and 184-278), run    *)
(* once at start-up, followed by the derivation of the three lists.        *)
(*                                                                         *)
(* order.yaml is [exists, order, found, steps]: whether the file exists,   *)
(* the names of its flat list, whether execution_groups holds a block for  *)
(* one of the requested descriptors, and the step names of the requested   *)
(* blocks in attack, purpose, defense order.  Malformed documents are left *)
(* out.                                                                    *)
(***************************************************************************)
\* most stages in an untagged catalog
MaxCatalog == 7

\* a stage name that prompts.yaml does not define
MissingName == MaxCatalog + MaxStages + 1

OrderDoc(order, found, steps) ==
    [exists |-> TRUE, order |-> order, found |-> found, steps |-> steps]

\* s.get("category") of a catalog stage: one of the three, absent, or something else
Tags == Categories \cup {"none", "recon"}

\* the catalogs: every tagging of up to MaxStages stages, untagged up to MaxCatalog
Catalogs ==
    UNION { { [i \in 1..n |-> [name |-> i, category |-> tags[i]]] : tags \in [1..n -> Tags] } :
            n \in 0..MaxStages }
    \cup { [i \in 1..n |-> [name |-> i, category |-> "none"]] : n \in 0..MaxCatalog }

\* name lists over a catalog of n stages: nothing, an unknown name, every stage in
\* reverse order, both
NameLists(n) ==
    LET reversed == [i \in 1..n |-> n + 1 - i]
    IN  {<<>>, <<MissingName>>, reversed, <<MissingName>> \o reversed}

OrderDocs(n) ==
    {NoOrderDoc}
    \cup {OrderDoc(order, FALSE, <<>>) : order \in NameLists(n)}
    \cup {OrderDoc(order, TRUE, steps) : order \in NameLists(n), steps \in NameLists(n)}

\* lines 98-102: prompts_by_name.get(name), as the list of zero or one stage
prompts_by_name(catalog, name) ==
    LET named == SelectSeq(catalog, LAMBDA st : st.name = name)
    IN  IF named = <<>> THEN <<>> ELSE <<named[Len(named)]>>

\* lines 118-126 and 211-221, 242-255: the stages appended for a list of names;
\* a name prompts.yaml does not define is skipped with a notice
RECURSIVE stages_named(_, _)
stages_named(catalog, names) ==
    IF names = <<>> THEN <<>>
    ELSE prompts_by_name(catalog, Head(names)) \o stages_named(catalog, Tail(names))

\* lines 108-138: the flat order document if it yields stages, else the catalog
flat_stages(catalog, doc) ==
    LET ordered == IF doc.exists THEN stages_named(catalog, doc.order) ELSE <<>>
    IN  IF ordered # <<>> THEN ordered ELSE catalog

\* lines 224-261: with a requested block present the list is emptied and rebuilt from
\* the blocks' steps; otherwise the flat list stays
grouped_stages(catalog, doc, flat) ==
    IF doc.exists /\ doc.found THEN stages_named(catalog, doc.steps) ELSE flat

\* lines 108-138 and 184-278: the stage list the loop will run
resolve_stages(catalog, doc, with_descriptors) ==
    LET flat == flat_stages(catalog, doc)
        grouped == grouped_stages(catalog, doc, flat)
    IN  IF ~with_descriptors THEN flat
        ELSE IF grouped = <<>> THEN <<Custom_Run>> ELSE grouped

ResolveInit ==
    /\ WL = Whitelist
    /\ action = NoneV /\ result = NoResult /\ first = NoResult /\ calls = 0
    /\ descriptors \in BOOLEAN
    /\ raw_stages \in Catalogs
    /\ order_doc \in OrderDocs(Len(raw_stages))
    /\ stages = <<>>
    /\ attack_stages = <<>> /\ purpose_stages = <<>> /\ defense_stages = <<>>
    /\ attack_idx = 0 /\ purpose_idx = 0 /\ defense_idx = 0
    /\ defense_started = FALSE
    /\ detection_triggered = FALSE
    /\ detected = FALSE
    /\ pc = "resolve"
    /\ sent = <<>>
    /\ events = <<>>
    /\ ssh_event = "none"
    /\ unseen = FALSE
    /\ true_polls = 0
    /\ asked = 0
    /\ AgentIdle /\ SubstituteIdle /\ AppIdle

\* lines 92-139 and 184-278: the one resolution, before the lists are derived
Resolve ==
    /\ pc = "resolve"
    /\ stages' = resolve_stages(raw_stages, order_doc, descriptors)
    /\ pc' = "start"
    /\ UNCHANGED <<WL, validatorVars, auxVars, descriptors, attack_stages, purpose_stages,
                   defense_stages, attack_idx, purpose_idx, defense_idx, defense_started,
                   detection_triggered, detected, sent, events, ssh_event, unseen, true_polls,
                   asked>>

ResolveNext == Resolve \/ Start

ResolveSpec == ResolveInit /\ [][ResolveNext]_vars

\* what the grouped document yields for the requested descriptors
GroupedYield ==
    IF descriptors /\ order_doc.exists /\ order_doc.found
    THEN stages_named(raw_stages, order_doc.steps) ELSE <<>>

\* what the flat document yields
FlatYield == IF order_doc.exists THEN stages_named(raw_stages, order_doc.order) ELSE <<>>

\* C21: the resolved list is the first non-empty one of: grouped document, flat
\* document, catalog, and with all three descriptors the Custom_Run stage; it is not
\* resolved again afterwards.
C21_Precedence ==
    pc # "resolve" =>
        stages = IF GroupedYield # <<>> THEN GroupedYield
                 ELSE IF FlatYield # <<>> THEN FlatYield
                 ELSE IF raw_stages # <<>> THEN raw_stages
                 ELSE IF descriptors THEN <<Custom_Run>>
                 ELSE <<>>

Untagged(s) == \A i \in DOMAIN s : s[i].category \notin Categories

\* C22: for an untagged stage list of one or more stages the three derived lists,
\* concatenated attack, purpose, defense, are the stage list, and the attack list is
\* not empty.
C22_ThirdsPartition ==
    (pc \notin {"resolve", "start"} /\ Untagged(stages) /\ Len(stages) >= 1) =>
        /\ attack_stages \o purpose_stages \o defense_stages = stages
        /\ attack_stages # <<>>

\* an untagged list long enough for three non-empty thirds has been split
C22_Witness ==
    /\ pc = "loop" /\ Untagged(stages) /\ Len(stages) >= 5
    /\ attack_stages \o purpose_stages \o defense_stages = stages
    /\ Len(attack_stages) < Len(defense_stages)

(***************************************************************************)
(* Placeholder substitution (orchestrator_stub.py:198-209), called on a    *)
(* stage's stored prompt before the inference call (lines 345, 363, 397).  *)
(* The target map is a dict of the JSON in TARGET_MAP (lines 191-193, 285).*)
(***************************************************************************)
\* most tokens in a stored prompt
MaxPromptTokens == 3

P_blue_vm == <<"b", "l", "u", "e", "_", "v", "m">>   \* "blue_vm"
P_red_vm == <<"r", "e", "d", "_", "v", "m">>   \* "red_vm"
P_blue_ip == <<"1", "9", "2", ".", "1", "6", "8", ".", "6", "0", ".", "3">>   \* "192.168.60.3"
P_red_ip == <<"1", "9", "2", ".", "1", "6", "8", ".", "6", "0", ".", "2">>   \* "192.168.60.2"

\* what a stored prompt is made of: the two role names, a letter, a blank, a hyphen
PromptTokens == {P_blue_vm, P_red_vm, <<"x">>, <<" ">>, <<"-">>}

RECURSIVE TokenStrings(_)
TokenStrings(n) ==
    IF n = 0 THEN {<<>>}
    ELSE TokenStrings(n - 1)
         \cup {s \o tok : s \in TokenStrings(n - 1), tok \in PromptTokens}

Prompts == TokenStrings(MaxPromptTokens)

\* target maps: empty, one role, both roles, a value that is not a string, and a
\* value that is itself a key
TargetMaps ==
    { <<>>,
      <<Item(P_blue_vm, StrV(P_blue_ip))>>,
      <<Item(P_blue_vm, StrV(P_blue_ip)), Item(P_red_vm, StrV(P_red_ip))>>,
      <<Item(P_blue_vm, IntV(3)), Item(P_red_vm, StrV(P_red_ip))>>,
      <<Item(P_red_vm, StrV(P_blue_vm)), Item(P_blue_vm, StrV(P_blue_ip))>> }

\* \b between s[i] and s[i + 1]: exactly one side is a word character
WordBoundary(s, i) ==
    (i >= 1 /\ i <= Len(s) /\ s[i] \in WordChars)
        # (i + 1 >= 1 /\ i + 1 <= Len(s) /\ s[i + 1] \in WordChars)

\* \b k \b matches s at position i
WordAt(s, i, k) ==
    /\ i + Len(k) - 1 <= Len(s)
    /\ SubSeq(s, i, i + Len(k) - 1) = k
    /\ WordBoundary(s, i - 1)
    /\ WordBoundary(s, i + Len(k) - 1)

\* re.sub(r"\b" + re.escape(k) + r"\b", v, s) from position i on, for a key k that
\* is not empty
RECURSIVE sub_word_from(_, _, _, _)
sub_word_from(s, i, k, v) ==
    IF i > Len(s) THEN <<>>
    ELSE IF WordAt(s, i, k) THEN v \o sub_word_from(s, i + Len(k), k, v)
    ELSE <<s[i]>> \o sub_word_from(s, i + 1, k, v)

re_sub_word(k, v, s) == sub_word_from(s, 1, k, v)

\* lines 12-22 and 58: orchestrator_stub imports yaml, os, json, time, paramiko,
\* sys, aggregate_runs, threading, socket and argparse; the name re is unbound
re_bound == FALSE

\* lines 200-209: the loop over the map's items; the first str/str item evaluates
\* re.sub, and the NameError of an unbound re is swallowed by `except Exception: pass`
RECURSIVE substitute_items(_, _)
substitute_items(out, items) ==
    IF items = <<>> THEN out
    ELSE IF Head(items).v.t # "str" THEN substitute_items(out, Tail(items))
    ELSE IF ~re_bound THEN out
    ELSE substitute_items(re_sub_word(Head(items).k, Head(items).v.s, out), Tail(items))

substitute_targets(prompt_text, tmap) == substitute_items(prompt_text, tmap)

SubstituteInit ==
    /\ WL = Whitelist
    /\ action = NoneV /\ result = NoResult /\ first = NoResult /\ calls = 0
    /\ SchedulerIdle
    /\ ResolveIdle /\ AgentIdle /\ AppIdle
    /\ prompt \in Prompts
    /\ RUNTIME_TARGET_MAP \in TargetMaps
    /\ prompt_to_send = NoneV

\* line 345 (also 363, 397): prompt_to_send = substitute_targets(prompt, RUNTIME_TARGET_MAP)
Substitute ==
    /\ prompt_to_send = NoneV
    /\ prompt_to_send' = StrV(substitute_targets(prompt, RUNTIME_TARGET_MAP))
    /\ UNCHANGED <<WL, validatorVars, schedulerVars, resolveVars, agentVars, appVars, prompt,
                   RUNTIME_TARGET_MAP>>

SubstituteNext == Substitute

SubstituteSpec == SubstituteInit /\ [][SubstituteNext]_vars

\* every whole-word occurrence of each string key replaced by its string value, the
\* keys taken in the map's order
RECURSIVE Replaced(_, _)
Replaced(text, items) ==
    IF items = <<>> THEN text
    ELSE IF Head(items).v.t # "str" THEN Replaced(text, Tail(items))
    ELSE Replaced(re_sub_word(Head(items).k, Head(items).v.s, text), Tail(items))

\* C26: the prompt sent to the inference call is the stored prompt with every
\* whole-word occurrence of each string key of the target map replaced by its string
\* value, and nothing else changed.
C26_TargetsSubstituted ==
    prompt_to_send # NoneV => prompt_to_send = StrV(Replaced(prompt, RUNTIME_TARGET_MAP))

(***************************************************************************)
(* The /simulate endpoint of the web front end (app.py:60-124) and the     *)
(* reader thread of a run (app.py:32-57).  The server is threaded          *)
(* (app.py:171), so request handlers run concurrently; runs_lock is held   *)
(* for the active-run check and, separately, for the registration.         *)
(***************************************************************************)
\* /simulate requests
MaxRequests == 3

Requests == 1..MaxRequests

\* the orchestrator processes that are alive: proc.poll() is None
Alive == {p \in DOMAIN procs : procs[p] = "running"}

AppInit ==
    /\ WL = Whitelist
    /\ action = NoneV /\ result = NoResult /\ first = NoResult /\ calls = 0
    /\ SchedulerIdle
    /\ ResolveIdle /\ AgentIdle /\ SubstituteIdle
    /\ runs = {}
    /\ procs = <<>>
    /\ handlers = [r \in Requests |-> [pc |-> "idle", proc |-> 0]]
    /\ StreamIdle

AppUnchanged ==
    UNCHANGED <<WL, validatorVars, schedulerVars, resolveVars, agentVars, substituteVars,
                streamVars>>

\* lines 66-72: the request body is read; a missing descriptor is answered with 400
Arrive(r) ==
    /\ handlers[r].pc = "idle"
    /\ \E complete \in BOOLEAN :
          handlers' = [handlers EXCEPT ![r].pc = IF complete THEN "check" ELSE "400"]
    /\ UNCHANGED <<runs, procs>>
    /\ AppUnchanged

\* lines 74-80: under runs_lock, 409 if a registered run's process is alive; the lock
\* is released before anything is started
check_active(r) ==
    [handlers |-> [handlers EXCEPT
                      ![r].pc = IF \E p \in runs : procs[p] = "running" THEN "409" ELSE "spawn"],
     procs |-> procs,
     runs |-> runs]

Check(r) ==
    /\ handlers[r].pc = "check"
    /\ handlers' = check_active(r).handlers
    /\ procs' = check_active(r).procs
    /\ runs' = check_active(r).runs
    /\ AppUnchanged

\* lines 99-108: subprocess.Popen starts the orchestrator, or fails with 500
Spawn(r) ==
    /\ handlers[r].pc = "spawn"
    /\ \/ /\ procs' = Append(procs, "running")
          /\ handlers' = [handlers EXCEPT ![r].pc = "register", ![r].proc = Len(procs) + 1]
       \/ /\ procs' = procs
          /\ handlers' = [handlers EXCEPT ![r].pc = "500"]
    /\ UNCHANGED runs
    /\ AppUnchanged

\* lines 110-112: under runs_lock, runs[run_id] = {queue, proc, logfile}
Register(r) ==
    /\ handlers[r].pc = "register"
    /\ runs' = runs \cup {handlers[r].proc}
    /\ handlers' = [handlers EXCEPT ![r].pc = "thread"]
    /\ UNCHANGED procs
    /\ AppUnchanged

\* lines 114-124: the reader thread is started and the run id returned
Respond(r) ==
    /\ handlers[r].pc = "thread"
    /\ handlers' = [handlers EXCEPT ![r].pc = "200"]
    /\ UNCHANGED <<runs, procs>>
    /\ AppUnchanged

\* the orchestrator process ends
ProcExit(p) ==
    /\ procs[p] = "running"
    /\ procs' = [procs EXCEPT ![p] = "exited"]
    /\ UNCHANGED <<runs, handlers>>
    /\ AppUnchanged

\* lines 53-57: the reader thread of a run whose process has ended removes the run
ReaderEnds(r) ==
    /\ handlers[r].pc = "200"
    /\ handlers[r].proc \in runs
    /\ procs[handlers[r].proc] = "exited"
    /\ runs' = runs \ {handlers[r].proc}
    /\ UNCHANGED <<procs, handlers>>
    /\ AppUnchanged

AppNext ==
    \/ \E r \in Requests : Arrive(r)
    \/ \E r \in Requests : Check(r)
    \/ \E r \in Requests : Spawn(r)
    \/ \E r \in Requests : Register(r)
    \/ \E r \in Requests : Respond(r)
    \/ \E p \in DOMAIN procs : ProcExit(p)
    \/ \E r \in Requests : ReaderEnds(r)

AppSpec == AppInit /\ [][AppNext]_vars

\* C27: at most one orchestrator process started through /simulate is alive at any
\* time: a request that arrives while a run's process is running starts none.
C27_SingleActiveRun == Cardinality(Alive) <= 1

(***************************************************************************)
(* The action normalizer (ai_agent_codellama.py): extraction of the first  *)
(* JSON-like span, conservative repair, and json.loads.                    *)
(*                                                                         *)
(* The four curly quotes are written by name ("ldquo", "rdquo", "lsquo",   *)
(* "rsquo"), each standing for one character.  json.loads is modelled for  *)
(* texts without backslashes (no string escapes).                          *)
(***************************************************************************)
\* longest generated text of braces, brackets, quotes and letters
MaxTextLen == 5

\* regex \s on the characters the texts hold
RegexSpace == SpaceChars \cup {"\r"}

\* the whitespace json.loads skips
JsonSpace == {" ", "\t", "\n", "\r"}

Span(text) == [found |-> TRUE, text |-> text]

NoSpan == [found |-> FALSE, text |-> <<>>]

\* the span from the first opener to the first closer after it
RECURSIVE first_close_from(_, _, _, _, _)
first_close_from(s, i, start, open_ch, close_ch) ==
    IF i > Len(s) THEN NoSpan
    ELSE IF s[i] = close_ch /\ start # 0 THEN Span(SubSeq(s, start, i))
    ELSE first_close_from(s, i + 1, IF s[i] = open_ch /\ start = 0 THEN i ELSE start,
                          open_ch, close_ch)

find_first_to_close(s, open_ch, close_ch) == first_close_from(s, 1, 0, open_ch, close_ch)

\* lines 21-33: the scan of _find_first_balanced from index i, with len(stack) = depth
\* and start = 0 for None
RECURSIVE balanced_from(_, _, _, _, _, _)
balanced_from(s, i, depth, start, open_ch, close_ch) ==
    IF i > Len(s) THEN NoSpan
    ELSE IF s[i] = open_ch
    THEN balanced_from(s, i + 1, depth + 1, IF start = 0 THEN i ELSE start, open_ch, close_ch)
    ELSE IF s[i] = close_ch
    THEN LET popped == IF depth > 0 THEN depth - 1 ELSE 0
         IN  IF popped = 0 /\ start # 0
             THEN Span(SubSeq(s, start, i))
             ELSE balanced_from(s, i + 1, popped, start, open_ch, close_ch)
    ELSE balanced_from(s, i + 1, depth, start, open_ch, close_ch)

\* _find_first_balanced (lines 19-33)
find_first_balanced(s, open_ch, close_ch) == balanced_from(s, 1, 0, 0, open_ch, close_ch)

\* line 38: curly quotes become straight quotes
straighten(s) ==
    [i \in DOMAIN s |-> CASE s[i] \in {"ldquo", "rdquo"} -> "\""
                          [] s[i] \in {"lsquo", "rsquo"} -> "'"
                          [] OTHER -> s[i]]

IsWordAt(s, i) == i >= 1 /\ i <= Len(s) /\ s[i] \in WordChars

L_action == <<"a", "c", "t", "i", "o", "n", ":">>   \* "action:"
L_json == <<"j", "s", "o", "n", ":">>   \* "json:"

\* length of the match of (?i)\blabel\s* at i, 0 for none
LabelAt(s, i, label) ==
    IF /\ i + Len(label) - 1 <= Len(s)
       /\ lower(SubSeq(s, i, i + Len(label) - 1)) = label
       /\ ~IsWordAt(s, i - 1)
    THEN Len(label) + RunLen(Drop(s, i + Len(label) - 1), RegexSpace)
    ELSE 0

\* lines 41-42: re.sub(r"(?i)\blabel\s*", "", s) from index i on
RECURSIVE drop_label_from(_, _, _)
drop_label_from(s, i, label) ==
    LET n == LabelAt(s, i, label)
    IN  IF i > Len(s) THEN <<>>
        ELSE IF n > 0 THEN drop_label_from(s, i + n, label)
        ELSE <<s[i]>> \o drop_label_from(s, i + 1, label)

\* length of the digit run at i if a \d{1,3} group followed by a non-digit can
\* match it, else 0
OctetRun(s, i) ==
    LET n == RunLen(Drop(s, i - 1), DigitChars)
    IN  IF n >= 1 /\ n <= 3 THEN n ELSE 0

CommaAt(s, i) == i >= 1 /\ i <= Len(s) /\ s[i] = ","

\* length of the match of \b(\d{1,3}),(\d{1,3}),(\d{1,3}),(\d{1,3})\b at i, 0 for none
CommaAddressAt(s, i) ==
    LET a == OctetRun(s, i)
        b == IF a > 0 /\ CommaAt(s, i + a) THEN OctetRun(s, i + a + 1) ELSE 0
        c == IF b > 0 /\ CommaAt(s, i + a + 1 + b) THEN OctetRun(s, i + a + b + 2) ELSE 0
        d == IF c > 0 /\ CommaAt(s, i + a + b + c + 2) THEN OctetRun(s, i + a + b + c + 3) ELSE 0
    IN  IF d > 0 /\ ~IsWordAt(s, i - 1) /\ ~IsWordAt(s, i + a + b + c + d + 3)
        THEN a + b + c + d + 3
        ELSE 0

Dots(s) == [i \in DOMAIN s |-> IF s[i] = "," THEN "." ELSE s[i]]

\* lines 45-46: comma-separated addresses rewritten with dots, from index i on
RECURSIVE fix_addresses_from(_, _)
fix_addresses_from(s, i) ==
    LET n == CommaAddressAt(s, i)
    IN  IF i > Len(s) THEN <<>>
        ELSE IF n > 0 THEN Dots(SubSeq(s, i, i + n - 1)) \o fix_addresses_from(s, i + n)
        ELSE <<s[i]>> \o fix_addresses_from(s, i + 1)

\* line 49: re.search(r'["\']\w+["\']\s*:', s) or re.search(r'\{\s*["\']', s)
LooksQuoted(s) ==
    \/ \E i \in DOMAIN s :
          /\ s[i] \in {"\"", "'"}
          /\ LET w == RunLen(Drop(s, i), WordChars)
                 q == i + w + 1
                 c == q + 1 + RunLen(Drop(s, q), RegexSpace)
             IN  /\ w >= 1
                 /\ q <= Len(s) /\ s[q] \in {"\"", "'"}
                 /\ c <= Len(s) /\ s[c] = ":"
    \/ \E i \in DOMAIN s :
          /\ s[i] = "{"
          /\ LET q == i + 1 + RunLen(Drop(s, i), RegexSpace)
             IN  q <= Len(s) /\ s[q] \in {"\"", "'"}

\* line 50: re.sub(r"(?<!\w)'(?!\w)", '"', s)
lone_quotes(s) ==
    [i \in DOMAIN s |->
        IF s[i] = "'" /\ ~IsWordAt(s, i - 1) /\ ~IsWordAt(s, i + 1) THEN "\"" ELSE s[i]]

\* line 51: the four str.replace calls, in order
quote_pairs(s) ==
    str_replace(str_replace(str_replace(str_replace(s,
        <<"'", ":">>, <<"\"", ":">>),
        <<":", "'">>, <<":", "\"">>),
        <<"'", ",">>, <<"\"", ",">>),
        <<",", "'">>, <<",", "\"">>)

\* lines 49-51
single_to_double(s) == IF LooksQuoted(s) THEN quote_pairs(lone_quotes(s)) ELSE s

\* length of the match of ,\s*[}\]] at i without its closing bracket, 0 for none
TrailingCommaAt(s, i) ==
    LET n == RunLen(Drop(s, i), RegexSpace)
    IN  IF s[i] = "," /\ i + n + 1 <= Len(s) /\ s[i + n + 1] \in {"}", "]"}
        THEN n + 1
        ELSE 0

\* line 54: re.sub(r",\s*([}\]])", r"\1", s) from index i on
RECURSIVE drop_trailing_commas_from(_, _)
drop_trailing_commas_from(s, i) ==
    LET n == IF i > Len(s) THEN 0 ELSE TrailingCommaAt(s, i)
    IN  IF i > Len(s) THEN <<>>
        ELSE IF n > 0 THEN <<s[i + n]>> \o drop_trailing_commas_from(s, i + n + 1)
        ELSE <<s[i]>> \o drop_trailing_commas_from(s, i + 1)

\* _conservative_repair_text (lines 36-56)
conservative_repair_text(s) ==
    LET unlabelled == drop_label_from(drop_label_from(straighten(s), 1, L_action), 1, L_json)
    IN  drop_trailing_commas_from(single_to_double(fix_addresses_from(unlabelled, 1)), 1)

\* line 81: re.search(r"\{.*\}", repaired, flags=re.DOTALL), first { to last }
outermost_braces(s) ==
    LET opens == {i \in DOMAIN s : s[i] = "{"}
        first_open == CHOOSE i \in opens : \A j \in opens : i <= j
        closes == {i \in DOMAIN s : s[i] = "}" /\ i > first_open}
        last_close == CHOOSE i \in closes : \A j \in closes : j <= i
    IN  IF opens = {} \/ closes = {} THEN NoSpan ELSE Span(SubSeq(s, first_open, last_close))

Candidate(span, step) == [found |-> span.found, text |-> span.text, step |-> step]

\* lines 64-85 of extract_first_json, given the repaired text of line 75; step names
\* the branch that returned, "none" for the ValueError of line 85
extract_with_repaired(output, repaired) ==
    LET obj == find_first_balanced(output, "{", "}")
        arr == find_first_balanced(output, "[", "]")
        obj2 == find_first_balanced(repaired, "{", "}")
        arr2 == find_first_balanced(repaired, "[", "]")
        m == outermost_braces(repaired)
    IN  IF obj.found THEN Candidate(obj, "object")
        ELSE IF arr.found THEN Candidate(arr, "array")
        ELSE IF obj2.found THEN Candidate(obj2, "repaired")
        ELSE IF arr2.found THEN Candidate(arr2, "repaired")
        ELSE IF m.found THEN Candidate(m, "greedy")
        ELSE Candidate(NoSpan, "none")

\* extract_first_json (lines 59-85)
extract_first_json(output) == extract_with_repaired(output, conservative_repair_text(output))

ListOf(items) == [t |-> "list", s |-> <<>>, n |-> 0, d |-> items]

BoolV(b) == [t |-> "bool", s |-> <<>>, n |-> IF b THEN 1 ELSE 0, d |-> <<>>]

\* a float, kept as its literal
FloatV(literal) == [t |-> "float", s |-> literal, n |-> 0, d |-> <<>>]

Decoded(v, end) == [ok |-> TRUE, v |-> v, end |-> end]

JSONDecodeError == [ok |-> FALSE, v |-> NoneV, end |-> 0]

IsAt(s, i, word) == i + Len(word) - 1 <= Len(s) /\ SubSeq(s, i, i + Len(word) - 1) = word

skip_space(s, i) == i + RunLen(Drop(s, i - 1), JsonSpace)

\* py_scanstring: index of the closing quote of a string whose content starts at i,
\* 0 if it is unterminated or holds a control character
RECURSIVE string_end(_, _)
string_end(s, i) ==
    IF i > Len(s) THEN 0
    ELSE IF s[i] = "\"" THEN i
    ELSE IF s[i] \in {"\t", "\n", "\r", "\\"} THEN 0
    ELSE string_end(s, i + 1)

\* a string whose opening quote is at i
json_string(s, i) ==
    LET end == string_end(s, i + 1)
    IN  IF end = 0 THEN JSONDecodeError
        ELSE Decoded(StrV(SubSeq(s, i + 1, end - 1)), end + 1)

\* NUMBER_RE, (-?(?:0|[1-9]\d*))(\.\d+)?([eE][-+]?\d+)?, matched at i
json_number(s, i) ==
    LET sign == IF IsAt(s, i, <<"-">>) THEN 1 ELSE 0
        int_len == IF IsAt(s, i + sign, <<"0">>) THEN 1
                   ELSE RunLen(Drop(s, i + sign - 1), DigitChars)
        f == i + sign + int_len
        frac_len == IF IsAt(s, f, <<".">>) /\ RunLen(Drop(s, f), DigitChars) > 0
                    THEN 1 + RunLen(Drop(s, f), DigitChars) ELSE 0
        e == f + frac_len
        exp_sign == IF e + 1 <= Len(s) /\ s[e + 1] \in {"+", "-"} THEN 1 ELSE 0
        exp_len == IF e <= Len(s) /\ s[e] \in {"e", "E"}
                      /\ RunLen(Drop(s, e + exp_sign), DigitChars) > 0
                   THEN 1 + exp_sign + RunLen(Drop(s, e + exp_sign), DigitChars) ELSE 0
        magnitude == DecValue(SubSeq(s, i + sign, f - 1))
    IN  IF int_len = 0 THEN JSONDecodeError
        ELSE IF frac_len = 0 /\ exp_len = 0
        THEN Decoded(IntV(IF sign = 1 THEN 0 - magnitude ELSE magnitude), f)
        ELSE Decoded(FloatV(SubSeq(s, i, e + exp_len - 1)), e + exp_len)

W_null == <<"n", "u", "l", "l">>   \* "null"
W_true == <<"t", "r", "u", "e">>   \* "true"
W_false == <<"f", "a", "l", "s", "e">>   \* "false"
W_NaN == <<"N", "a", "N">>   \* "NaN"
W_Infinity == <<"I", "n", "f", "i", "n", "i", "t", "y">>   \* "Infinity"
W_NegInfinity == <<"-", "I", "n", "f", "i", "n", "i", "t", "y">>   \* "-Infinity"

\* json.scanner: the value that starts at i; json.decoder: JSONObject and JSONArray
RECURSIVE json_value(_, _), json_members(_, _, _), json_elements(_, _, _)
json_value(s, i) ==
    LET inner == skip_space(s, i + 1)
        number == json_number(s, i)
    IN
    IF i > Len(s) THEN JSONDecodeError
    ELSE IF s[i] = "\"" THEN json_string(s, i)
    ELSE IF s[i] = "{"
    THEN IF IsAt(s, inner, <<"}">>)
         THEN Decoded(DictV(<<>>), inner + 1)
         ELSE json_members(s, inner, <<>>)
    ELSE IF s[i] = "["
    THEN IF IsAt(s, inner, <<"]">>)
         THEN Decoded(ListOf(<<>>), inner + 1)
         ELSE json_elements(s, inner, <<>>)
    ELSE IF IsAt(s, i, W_null) THEN Decoded(NoneV, i + 4)
    ELSE IF IsAt(s, i, W_true) THEN Decoded(BoolV(TRUE), i + 4)
    ELSE IF IsAt(s, i, W_false) THEN Decoded(BoolV(FALSE), i + 5)
    ELSE IF number.ok THEN number
    ELSE IF IsAt(s, i, W_NaN) THEN Decoded(FloatV(W_NaN), i + 3)
    ELSE IF IsAt(s, i, W_Infinity) THEN Decoded(FloatV(W_Infinity), i + 8)
    ELSE IF IsAt(s, i, W_NegInfinity) THEN Decoded(FloatV(W_NegInfinity), i + 9)
    ELSE JSONDecodeError

\* the members of an object from the key expected at i on
json_members(s, i, items) ==
    IF ~IsAt(s, i, <<"\"">>) THEN JSONDecodeError
    ELSE LET key == json_string(s, i)
             colon == skip_space(s, key.end)
             val == json_value(s, skip_space(s, colon + 1))
             next == skip_space(s, val.end)
         IN  IF ~key.ok \/ ~IsAt(s, colon, <<":">>) THEN JSONDecodeError
             ELSE IF ~val.ok THEN JSONDecodeError
             ELSE IF IsAt(s, next, <<"}">>)
             THEN Decoded(DictV(Set(items, key.v.s, val.v)), next + 1)
             ELSE IF IsAt(s, next, <<",">>)
             THEN json_members(s, skip_space(s, next + 1), Set(items, key.v.s, val.v))
             ELSE JSONDecodeError

\* the elements of an array from the value expected at i on
json_elements(s, i, values) ==
    LET val == json_value(s, i)
        next == skip_space(s, val.end)
    IN  IF ~val.ok THEN JSONDecodeError
        ELSE IF IsAt(s, next, <<"]">>) THEN Decoded(ListOf(Append(values, val.v)), next + 1)
        ELSE IF IsAt(s, next, <<",">>)
        THEN json_elements(s, skip_space(s, next + 1), Append(values, val.v))
        ELSE JSONDecodeError

\* json.loads: one value, surrounded by nothing but whitespace
json_loads(s) ==
    LET val == json_value(s, skip_space(s, 1))
    IN  IF val.ok /\ skip_space(s, val.end) = Len(s) + 1 THEN val ELSE JSONDecodeError

Returned_action(v, extracted) ==
    [ok |-> TRUE, v |-> v, err |-> "", json_str |-> strip(extracted.text), step |-> extracted.step]

RuntimeError(msg, extracted) ==
    [ok |-> FALSE, v |-> NoneV, err |-> msg, json_str |-> strip(extracted.text),
     step |-> extracted.step]

\* lines 130-141: the first parse, else the parse of the repaired candidate, else
\* RuntimeError; line 146-148 for the ValueError of extract_first_json
parse_or_repair(extracted, loaded, reloaded) ==
    IF ~extracted.found THEN RuntimeError("Unexpected error calling CodeLlama", extracted)
    ELSE IF loaded.ok THEN Returned_action(loaded.v, extracted)
    ELSE IF reloaded.ok THEN Returned_action(reloaded.v, extracted)
    ELSE RuntimeError("Invalid JSON returned by LLM", extracted)

\* lines 128-135: json_str and its two parses
parse_json_str(extracted, json_str) ==
    parse_or_repair(extracted, json_loads(json_str),
                    json_loads(conservative_repair_text(json_str)))

parse_extracted(extracted) == parse_json_str(extracted, strip(extracted.text))

\* get_action_from_llm from line 123 on, given what the inference process printed
get_action_from_llm(text) == parse_extracted(extract_first_json(strip(text)))

\* get_action_from_llm has not been called
NotCalled == [ok |-> FALSE, v |-> NoneV, err |-> "", json_str |-> <<>>, step |-> "none"]

\* the raw output of the normalizer's example in the specification
O_labelled == <<"A", "c", "t", "i", "o", "n", ":", " ", "{", "'", "t", "o", "o", "l", "'", ":", "'", "p", "i", "n", "g", "'", ",", " ", "'", "p", "a", "r", "a", "m", "s", "'", ":", " ", "{", "'", "t", "a", "r", "g", "e", "t", "'", ":", " ", "'", "1", "9", "2", ",", "1", "6", "8", ",", "6", "0", ",", "3", "'", "}", "}", ",">>
\* the module's own test prompt echoed back (line 155)
O_echoed == <<"R", "e", "t", "u", "r", "n", " ", "o", "n", "l", "y", " ", "J", "S", "O", "N", ":", " ", "{", "\"", "t", "o", "o", "l", "\"", ":", " ", "\"", "p", "i", "n", "g", "\"", ",", " ", "\"", "p", "a", "r", "a", "m", "s", "\"", ":", " ", "{", "\"", "t", "a", "r", "g", "e", "t", "\"", ":", " ", "\"", "1", "9", "2", ".", "1", "6", "8", ".", "1", "0", "0", ".", "2", "\"", "}", "}">>
\* double quotes, an address written with commas, a trailing comma
O_trailing == <<"{", "\"", "t", "o", "o", "l", "\"", ":", " ", "\"", "p", "i", "n", "g", "\"", ",", " ", "\"", "p", "a", "r", "a", "m", "s", "\"", ":", " ", "{", "\"", "t", "a", "r", "g", "e", "t", "\"", ":", " ", "\"", "1", "9", "2", ",", "1", "6", "8", ",", "6", "0", ",", "3", "\"", "}", ",", "}">>
\* a label and an array
O_array == <<"j", "s", "o", "n", ":", " ", "[", "1", ",", " ", "2", ",", "]">>
\* single quotes that stand alone
O_lone == <<"{", " ", "'", " ", "a", " ", "'", " ", ":", " ", "'", " ", "b", " ", "'", " ", "}">>
\* an unclosed object
O_open == <<"{", "\"", "t", "o", "o", "l", "\"", ":", " ", "\"", "p", "i", "n", "g", "\"">>
\* braces inside a string
O_brace_in_string == <<"{", "\"", "a", "\"", ":", " ", "\"", "}", "\"", "}">>

SampleOutputs ==
    {O_labelled, O_echoed, O_trailing, O_array, O_lone, O_open, O_brace_in_string,
     <<"ldquo", "a", "rdquo">>}

TextChars == {"{", "}", "[", "]", "\"", "a"}

RawOutputs == StringsUpTo(TextChars, MaxTextLen) \cup SampleOutputs

NormalizerInit ==
    /\ WL = Whitelist
    /\ action = NoneV /\ result = NoResult /\ first = NoResult /\ calls = 0
    /\ SchedulerIdle
    /\ ResolveIdle /\ SubstituteIdle /\ AppIdle
    /\ stdout \in RawOutputs
    /\ parsed = NotCalled

\* lines 123-141: the text is normalized into an action, or RuntimeError is raised
Normalize ==
    /\ parsed = NotCalled
    /\ parsed' = get_action_from_llm(stdout)
    /\ UNCHANGED <<WL, validatorVars, schedulerVars, resolveVars, substituteVars, appVars, stdout>>

NormalizerNext == Normalize

NormalizerSpec == NormalizerInit /\ [][NormalizerNext]_vars

\* index of the first open_ch of s, 0 for none
FirstOpen(s, open_ch) ==
    IF \E i \in DOMAIN s : s[i] = open_ch
    THEN CHOOSE i \in DOMAIN s : s[i] = open_ch /\ \A j \in 1..(i - 1) : s[j] # open_ch
    ELSE 0

\* the depth after position j, counted from position i
DepthAt(s, i, j, open_ch, close_ch) ==
    Cardinality({k \in i..j : s[k] = open_ch}) - Cardinality({k \in i..j : s[k] = close_ch})

\* positions after the first opener where the depth is zero
DepthZero(s, open_ch, close_ch) ==
    IF FirstOpen(s, open_ch) = 0 THEN {}
    ELSE {j \in (FirstOpen(s, open_ch) + 1)..Len(s) :
             DepthAt(s, FirstOpen(s, open_ch), j, open_ch, close_ch) = 0}

\* the text from the first opener to the first position where the depth is zero
FirstSpan(s, open_ch, close_ch) ==
    SubSeq(s, FirstOpen(s, open_ch),
           CHOOSE j \in DepthZero(s, open_ch, close_ch) :
               \A k \in DepthZero(s, open_ch, close_ch) : j <= k)

\* C25: for every text the structural extraction returns the span from the first "{"
\* to the first later position where the brace depth is back at zero, counting
\* braces only; it returns the like span of "[" and "]" only when there is no such
\* brace span; when neither depth returns to zero it returns no span.
C25_StructuralSpan ==
    parsed # NotCalled =>
        LET text == strip(stdout)
        IN  IF DepthZero(text, "{", "}") # {}
            THEN parsed.step = "object" /\ parsed.json_str = FirstSpan(text, "{", "}")
            ELSE IF DepthZero(text, "[", "]") # {}
            THEN parsed.step = "array" /\ parsed.json_str = FirstSpan(text, "[", "]")
            ELSE parsed.step \notin {"object", "array"}

J_cut == <<"{", "\"", "a", "\"", ":", " ", "\"", "}">>   \* the span that ends at the brace inside the string

\* a brace inside a string literal closed the span
C25_Witness ==
    /\ stdout = O_brace_in_string
    /\ parsed.step = "object"
    /\ parsed.json_str = J_cut
    /\ ~parsed.ok

J_address == <<"1", "9", "2", ".", "1", "6", "8", ".", "6", "0", ".", "3">>   \* "192.168.60.3"

\* C24: from the labelled, single-quoted output with a comma-written address and a
\* trailing comma the normalizer returns {tool: ping, params: {target: 192.168.60.3}}.
C24_ExampleRecovered ==
    (stdout = O_labelled /\ parsed # NotCalled) =>
        /\ parsed.ok
        /\ parsed.v = DictV(<<Item(K_tool, StrV(W_ping)),
                              Item(K_params, DictV(<<Item(K_target, StrV(J_address))>>))>>)

\* C31: each cursor stays between 0 and the length of its list, never decreases and
\* moves by one at most once per loop iteration (a stage body is entered only from the
\* loop's own branch for it and is followed by the rest of the iteration), and the
\* stage lists are not modified once the loop has started.
C31_CursorsAndLists ==
    /\ [](/\ 0 <= attack_idx /\ attack_idx <= Len(attack_stages)
          /\ 0 <= defense_idx /\ defense_idx <= Len(defense_stages))
    /\ [][/\ attack_idx' \in {attack_idx, attack_idx + 1}
          /\ defense_idx' \in {defense_idx, defense_idx + 1}
          /\ attack_idx' # attack_idx => pc = "attack" /\ pc' = "monitor_due"
          /\ defense_idx' # defense_idx => pc = "defense" /\ pc' \in {"loop", "finished"}
          /\ (pc' = "attack" /\ pc # "attack") => pc = "loop"
          /\ (pc' = "defense" /\ pc # "defense") => pc = "escalate"
          /\ (pc' = "loop" /\ pc # "loop") => pc \in {"start", "escalate", "defense"}
          /\ pc # "start" =>
                UNCHANGED <<stages, attack_stages, purpose_stages, defense_stages>>]_vars

\* both cursors have reached the end of their lists, the attack cursor over two stages
C31_Witness ==
    /\ pc = "finished"
    /\ Len(attack_stages) >= 2 /\ attack_idx = Len(attack_stages)
    /\ Len(defense_stages) >= 1 /\ defense_idx = Len(defense_stages)
    /\ stages # <<>>

\* the attempts, in monitor mode or escalated, on the defense stage of the given name
DefenseRuns(name) ==
    {i \in DOMAIN events : events[i].block \in {"monitor", "defense"} /\ events[i].stage = name}

\* C32: the monitor start changes defense_started and no cursor; the first
\* detection-triggered defense stage is the stage of index 0, which the monitor start
\* ran before it; every other defense stage is run at most once.
C32_MonitorStageRunTwice ==
    /\ [][(pc = "monitor" /\ pc' # "monitor") =>
             UNCHANGED <<attack_idx, purpose_idx, defense_idx, stages, attack_stages,
                         purpose_stages, defense_stages, detected>>]_vars
    /\ [](\A i \in DOMAIN events :
             (events[i].block = "defense" /\ \A j \in 1..(i - 1) : events[j].block # "defense")
                 => /\ events[i].stage = defense_stages[1].name
                    /\ \E j \in 1..(i - 1) :
                          events[j].block = "monitor" /\ events[j].stage = events[i].stage)
    /\ [](\A k \in 2..Len(defense_stages) :
             Cardinality(DefenseRuns(defense_stages[k].name)) <= 1)

\* C33: no command of a tool marked requires_approval is dispatched: the loop has no
\* approval step, so a dispatched command's tool does not require approval.
C33_ApprovalGatesDispatch == \A i \in DOMAIN sent : ~sent[i].requires_approval

\* the derived lists that hold the stage
ListsHolding(st) ==
    {c \in Categories :
        LET list == CASE c = "attack" -> attack_stages
                      [] c = "purpose" -> purpose_stages
                      [] c = "defense" -> defense_stages
        IN  \E i \in DOMAIN list : list[i] = st}

\* C34: every stage of the resolved list is in exactly one of the attack, purpose and
\* defense lists, whatever tags the stages carry.
C34_EveryStageCategorised ==
    pc \notin {"resolve", "start"} =>
        \A i \in DOMAIN stages : Cardinality(ListsHolding(stages[i])) = 1

(***************************************************************************)
(* Event streaming of one run (app.py): the orchestrator process prints    *)
(* lines, the run's reader thread (lines 32-57) turns them into objects on *)
(* the run's queue, and the generator of /stream/<run_id> (lines 127-147)  *)
(* yields them to the client.  The client has opened the stream at the     *)
(* start of the run: the run is registered and the process is running.     *)
(*                                                                         *)
(* A line is [json, type]: the output of emit() with its "type", or other  *)
(* text.  An object is [type, message], message telling the reader's       *)
(* "Run finished" from the orchestrator's own messages.                    *)
(***************************************************************************)
\* most lines the orchestrator prints in a run
MaxLines == 3

\* emit() of the stage loop: "status" (line 341), "complete" (line 350) and
\* "finished" (line 411)
EventTypes == {"status", "complete", "finished"}

Lines == {[json |-> TRUE, type |-> t] : t \in EventTypes} \cup {[json |-> FALSE, type |-> "text"]}

\* lines 45-49: json.loads(text), or a "log" object for a line that is not JSON
reader_object(line) ==
    IF line.json THEN [type |-> line.type, message |-> "event"]
    ELSE [type |-> "log", message |-> "text"]

\* line 54: {"type": "complete", "message": "Run finished"}
RunFinished == [type |-> "complete", message |-> "Run finished"]

\* a generator that ends on the reader's last object only
closes_on_run_finished(obj) == obj = RunFinished

\* lines 144-145: the generator ends after an object of type "complete"
closes_stream(obj) == obj.type = "complete"

StreamInit ==
    /\ WL = Whitelist
    /\ action = NoneV /\ result = NoResult /\ first = NoResult /\ calls = 0
    /\ SchedulerIdle
    /\ ResolveIdle /\ AgentIdle /\ SubstituteIdle
    /\ runs = {1}
    /\ procs = <<"running">>
    /\ handlers = <<>>
    /\ emitted = <<>> /\ pipe = <<>> /\ run_queue = <<>> /\ streamed = <<>>
    /\ reader = "read"
    /\ client = "get"

StreamUnchanged ==
    UNCHANGED <<WL, validatorVars, schedulerVars, resolveVars, agentVars, substituteVars,
                handlers>>

\* orchestrator_stub.py: emit() or print() writes a line to the process's stdout
Emit(line) ==
    /\ procs[1] = "running"
    /\ Len(emitted) < MaxLines
    /\ emitted' = Append(emitted, line)
    /\ pipe' = Append(pipe, line)
    /\ UNCHANGED <<runs, procs, run_queue, streamed, reader, client>>
    /\ StreamUnchanged

\* lines 39-49: the reader thread reads a line and puts its object on the queue
ReadLine ==
    /\ reader = "read"
    /\ pipe # <<>>
    /\ run_queue' = Append(run_queue, reader_object(Head(pipe)))
    /\ pipe' = Tail(pipe)
    /\ UNCHANGED <<runs, procs, emitted, streamed, reader, client>>
    /\ StreamUnchanged

\* lines 39-41: readline returns '' at the end of the output of the exited process
ReadEnd ==
    /\ reader = "read"
    /\ pipe = <<>>
    /\ procs[1] = "exited"
    /\ reader' = "wait"
    /\ UNCHANGED <<runs, procs, emitted, pipe, run_queue, streamed, client>>
    /\ StreamUnchanged

\* lines 53-54: proc.wait() returns and the reader puts its last object
PutComplete ==
    /\ reader = "wait"
    /\ procs[1] = "exited"
    /\ run_queue' = Append(run_queue, RunFinished)
    /\ reader' = "pop"
    /\ UNCHANGED <<runs, procs, emitted, pipe, streamed, client>>
    /\ StreamUnchanged

\* lines 56-57: runs.pop(run_id, None) under runs_lock
PopRun ==
    /\ reader = "pop"
    /\ runs' = runs \ {1}
    /\ reader' = "done"
    /\ UNCHANGED <<procs, emitted, pipe, run_queue, streamed, client>>
    /\ StreamUnchanged

\* lines 138 and 143-145: q.get returns an object, which is yielded
QueueGet ==
    /\ client = "get"
    /\ run_queue # <<>>
    /\ streamed' = Append(streamed, Head(run_queue))
    /\ run_queue' = Tail(run_queue)
    /\ client' = IF closes_stream(Head(run_queue)) THEN "closed" ELSE "get"
    /\ UNCHANGED <<runs, procs, emitted, pipe, reader>>
    /\ StreamUnchanged

\* lines 138-139: q.get(timeout=0.5) raises queue.Empty
QueueEmpty ==
    /\ client = "get"
    /\ run_queue = <<>>
    /\ client' = "poll"
    /\ UNCHANGED <<runs, procs, emitted, pipe, run_queue, streamed, reader>>
    /\ StreamUnchanged

\* line 140, left operand: meta["proc"].poll() is not None
ProcPoll ==
    /\ client = "poll"
    /\ client' = IF procs[1] = "exited" THEN "empty" ELSE "get"
    /\ UNCHANGED <<runs, procs, emitted, pipe, run_queue, streamed, reader>>
    /\ StreamUnchanged

\* lines 140-142, right operand: q.empty() ends the generator
QueueEmptyCheck ==
    /\ client = "empty"
    /\ client' = IF run_queue = <<>> THEN "closed" ELSE "get"
    /\ UNCHANGED <<runs, procs, emitted, pipe, run_queue, streamed, reader>>
    /\ StreamUnchanged

StreamNext ==
    \/ \E line \in Lines : Emit(line)
    \/ ProcExit(1)
    \/ ReadLine
    \/ ReadEnd
    \/ PutComplete
    \/ PopRun
    \/ QueueGet
    \/ QueueEmpty
    \/ ProcPoll
    \/ QueueEmptyCheck

StreamSpec == StreamInit /\ [][StreamNext]_vars

IsPrefix(a, b) == Len(a) <= Len(b) /\ a = SubSeq(b, 1, Len(a))

\* the events among a sequence of objects
EventsOf(objs) == SelectSeq(objs, LAMBDA o : o.message = "event")

\* the events the orchestrator has emitted
EmittedEvents == EventsOf([i \in DOMAIN emitted |-> reader_object(emitted[i])])

\* C35: the client receives the orchestrator's events in emission order, and when the
\* stream has ended the process has exited, every emitted event has been received,
\* and a last object of type "complete" is the reader's run-finished object.
C35_StreamDeliversAll ==
    /\ IsPrefix(EventsOf(streamed), EmittedEvents)
    /\ client = "closed" =>
          /\ procs[1] = "exited"
          /\ EventsOf(streamed) = EmittedEvents
          /\ (streamed # <<>> /\ streamed[Len(streamed)].type = "complete")
                => streamed[Len(streamed)] = RunFinished

====
